---- MODULE Spec2Model ----
(***************************************************************************)
(* LogicCorrelator: the event ingestion pipeline (core/event_aggregator.py), *)
(* the schema validator (core/event_schema.py) and the temporal store       *)
(* (core/state_manager.py).                                                 *)
(*                                                                          *)
(* Threads: producers calling receive_event, the worker threads created by  *)
(* start() running _process_events, a reader polling get_stats, and the     *)
(* controller calling start()/stop().  A step of a thread is one access to  *)
(* shared state together with the thread-local computation around it.       *)
(* Time is a discrete clock; one tick is the worker's dequeue timeout.      *)
(***************************************************************************)
EXTENDS Integers, Sequences, FiniteSets, TLC

(* ------------------------------------------------------------------ *)
(* Bounds of the model                                                  *)
(* ------------------------------------------------------------------ *)
\* receive_event calls made in one behaviour
MaxEvents == 2
\* last instant of the clock
MaxTime == 2
\* largest configured buffer_size
MaxBuffer == 2
\* largest configured batch_size
MaxBatch == 2

(* ------------------------------------------------------------------ *)
(* Python values.  k is the Python type, s the text of a string, n the  *)
(* number of a numeric value (or the instant an ISO-8601 string names). *)
(* ------------------------------------------------------------------ *)
V(k, s, n) == [k |-> k, s |-> s, n |-> n]
PyStr(s) == V("str", s, 0)
PyInt(n) == V("int", "", n)
PyBool(b) == V("bool", "", IF b THEN 1 ELSE 0)
None == V("none", "", 0)
\* datetime.isoformat() of a naive datetime at instant t
IsoNaive(t) == V("str", "iso", t)
\* the same text with a 'Z' suffix, as the event generator and the tests write it
IsoZ(t) == V("str", "isoZ", t)
\* the same text with an explicit UTC offset
IsoOffset(t) == V("str", "iso+00:00", t)

\* isinstance(value, str) / isinstance(value, int) / isinstance(value, bool):
\* bool is a subclass of int in Python
IsStr(v) == v.k = "str"
IsInt(v) == v.k \in {"int", "bool"}
IsBool(v) == v.k = "bool"
IsNumber(v) == v.k \in {"int", "bool", "float"}
\* `not value`
Falsy(v) ==
  \/ v.k = "none"
  \/ v.k = "str" /\ v.s = "" /\ v.n = 0
  \/ IsNumber(v) /\ v.n = 0
\* hash(value) raises TypeError for a list or a dict
Unhashable(v) == v.k \in {"list", "dict"}
\* Python ==: numbers compare by value across int, bool and float
PyEq(a, b) == IF IsNumber(a) /\ IsNumber(b) THEN a.n = b.n ELSE a = b

\* dict operations
Has(d, f) == f \in DOMAIN d
Get(d, f, default) == IF f \in DOMAIN d THEN d[f] ELSE default
Put(d, f, v) == (f :> v) @@ d

\* elements of a sequence
Range(s) == {s[i] : i \in 1..Len(s)}

(* ------------------------------------------------------------------ *)
(* config/event_schema.json: event type -> fields, each with a required *)
(* flag, a primitive type and an optional enum                          *)
(* ------------------------------------------------------------------ *)
Field(name, required, type, hasEnum, enum) ==
  [name |-> name, required |-> required, type |-> type,
   hasEnum |-> hasEnum, enum |-> enum]

SchemaFile ==
  [auth_fail |->
     << Field("user", TRUE, "string", FALSE, {}),
        Field("source_ip", TRUE, "string", FALSE, {}),
        Field("port", FALSE, "integer", FALSE, {}),
        Field("success", FALSE, "boolean", FALSE, {}),
        Field("method", FALSE, "string", TRUE, {PyStr("password"), PyStr("key")}) >>,
   network_connect |->
     << Field("message", TRUE, "string", FALSE, {}) >>]

\* _load_schemas: the file's event_types, or {} when the file is missing or unparsable
_load_schemas(file) == IF file \in {"missing", "unparsable"} THEN <<>> ELSE SchemaFile

\* a field check that applies the enum test to fields that declare no enum
MutEnumAlwaysChecked(value, field_spec) ==
  IF field_spec.type = "string" /\ ~IsStr(value) THEN FALSE
  ELSE IF field_spec.type = "integer" /\ ~IsInt(value) THEN FALSE
  ELSE IF field_spec.type = "boolean" /\ ~IsBool(value) THEN FALSE
  ELSE \E x \in field_spec.enum : PyEq(value, x)
\* EventValidator._validate_field_type
_validate_field_type(value, field_spec) ==
  IF field_spec.type = "string" /\ ~IsStr(value) THEN FALSE
  ELSE IF field_spec.type = "integer" /\ ~IsInt(value) THEN FALSE
  ELSE IF field_spec.type = "boolean" /\ ~IsBool(value) THEN FALSE
  ELSE IF field_spec.hasEnum /\ ~(\E x \in field_spec.enum : PyEq(value, x)) THEN FALSE
  ELSE TRUE

\* `event_type not in self.schemas` raises TypeError for an unhashable type value
validate_raises(schemas, event) ==
  Has(event, "type") /\ ~Falsy(event["type"]) /\ Unhashable(event["type"])

\* a validate that checks the types of the fields present but not that the
\* required ones are there
MutValidateSkipsRequired(schemas, event) ==
  IF ~Has(event, "type") \/ Falsy(event["type"]) THEN FALSE
  ELSE IF ~(IsStr(event["type"]) /\ event["type"].s \in DOMAIN schemas) THEN FALSE
  ELSE LET fields == schemas[event["type"].s]
       IN \A i \in 1..Len(fields) :
            Has(event, fields[i].name) =>
              _validate_field_type(event[fields[i].name], fields[i])
\* EventValidator.validate
validate(schemas, event) ==
  IF ~Has(event, "type") \/ Falsy(event["type"]) THEN FALSE
  ELSE IF ~(IsStr(event["type"]) /\ event["type"].s \in DOMAIN schemas) THEN FALSE
  ELSE LET fields == schemas[event["type"].s]
       IN \A i \in 1..Len(fields) :
            /\ fields[i].required => Has(event, fields[i].name)
            /\ Has(event, fields[i].name) =>
                 _validate_field_type(event[fields[i].name], fields[i])

(* ------------------------------------------------------------------ *)
(* Normalization (event_aggregator.py)                                  *)
(* ------------------------------------------------------------------ *)
\* The keywords of _infer_event_type that occur in a text: Python's `in` on
\* str(event).lower(), tabulated for the texts the model's events carry
KeywordsIn(s) ==
  CASE s = "auth_fail" -> {"auth", "fail"}
    [] s = "auth_success" -> {"auth"}
    [] s = "authentication failed" -> {"auth", "fail"}
    [] s = "authenticated" -> {"auth"}
    [] s = "network connection failed" -> {"network", "connection", "fail"}
    [] s = "connection reset" -> {"connection"}
    [] s = "network down" -> {"network"}
    [] s = "process_name" -> {"process"}
    [] s = "file_path" -> {"file"}
    [] OTHER -> {}

\* the keywords occurring in str(event).lower(): keys and values alike
TextOf(event) ==
  UNION {KeywordsIn(f) \cup KeywordsIn(event[f].s) : f \in DOMAIN event}

\* an inference that looks for 'process' before 'auth'
MutInferProcessFirst(event) ==
  IF "process" \in TextOf(event) THEN "process_start"
  ELSE IF "auth" \in TextOf(event)
  THEN (IF "fail" \in TextOf(event) THEN "auth_fail" ELSE "auth_success")
  ELSE IF "network" \in TextOf(event) \/ "connection" \in TextOf(event)
       THEN "network_connect"
  ELSE IF "file" \in TextOf(event) THEN "file_access"
  ELSE "unknown"
\* EventAggregator._infer_event_type
_infer_event_type(event) ==
  IF "auth" \in TextOf(event)
  THEN (IF "fail" \in TextOf(event) THEN "auth_fail" ELSE "auth_success")
  ELSE IF "process" \in TextOf(event) THEN "process_start"
  ELSE IF "network" \in TextOf(event) \/ "connection" \in TextOf(event)
       THEN "network_connect"
  ELSE IF "file" \in TextOf(event) THEN "file_access"
  ELSE "unknown"

\* datetime.fromtimestamp(x) gives the host's local time; the host runs in UTC
LocalOffset == 0

\* a datetime object: naive (no tzinfo) or aware
DateTime(aware, t) == V("datetime", IF aware THEN "aware" ELSE "naive", t)

\* a number beyond the range of the platform's time_t, or NaN:
\* datetime.fromtimestamp raises OverflowError or ValueError on it
OutOfRangeNumber == V("float", "out of range", 0)
\* _normalize_event line 171 raises
normalize_raises(event) ==
  /\ Has(event, "timestamp")
  /\ IsNumber(event["timestamp"])
  /\ event["timestamp"].s = "out of range"

\* EventAggregator._normalize_event, called at instant now
_normalize_event(event, now) ==
  LET typed == IF Has(event, "type") THEN event
               ELSE Put(event, "type", PyStr(_infer_event_type(event)))
      timed == IF Has(typed, "timestamp") /\ IsNumber(typed["timestamp"])
               THEN Put(typed, "timestamp", IsoNaive(typed["timestamp"].n + LocalOffset))
               ELSE typed
  IN Put(timed, "_metadata",
         V("dict", Get(event, "_source", PyStr("unknown")).s, now))

(* ------------------------------------------------------------------ *)
(* Temporal store (state_manager.py).  event_windows is the defaultdict *)
(* of deques in key insertion order: a sequence of [type, events].      *)
(* A stored event is [id, d]: the identity of the dict object and its   *)
(* content.                                                             *)
(* ------------------------------------------------------------------ *)
\* event.get('type', 'unknown')
TypeKey(d) == IF Has(d, "type") THEN d["type"].s ELSE "unknown"

HasWindow(windows, T) == \E i \in 1..Len(windows) : windows[i].type = T
WindowIndex(windows, T) == CHOOSE i \in 1..Len(windows) : windows[i].type = T
\* self.event_windows.get(event_type, [])
WindowOf(windows, T) ==
  IF HasWindow(windows, T) THEN windows[WindowIndex(windows, T)].events ELSE <<>>

\* a lookup by self.event_windows[event_type]: the defaultdict creates an
\* empty deque for a type it does not hold
MutGetCreatesWindow(windows, T) ==
  IF HasWindow(windows, T) THEN windows
  ELSE Append(windows, [type |-> T, events |-> <<>>])
\* the store after self.event_windows.get(event_type, []): dict.get does not
\* call the default factory, no key is added
WindowsAfterGet(windows, T) == windows

\* datetime.fromisoformat(text.replace('Z', '+00:00')) succeeds on these texts
ParsesAsIso(v) == v.s \in {"iso", "isoZ", "iso+00:00"}
fromisoformat(v) == DateTime(v.s # "iso", v.n)

\* add_event, lines 49-58: the timestamp default and the parsed _timestamp_dt
\* that add_event writes into the event dict
StampEvent(d, now) ==
  LET d1 == IF Has(d, "timestamp") THEN d ELSE Put(d, "timestamp", IsoNaive(now))
  IN IF IsStr(d1["timestamp"])
     THEN Put(d1, "_timestamp_dt",
              IF ParsesAsIso(d1["timestamp"]) THEN fromisoformat(d1["timestamp"])
              ELSE DateTime(FALSE, now))
     ELSE d1

\* add_event, lines 60-62: self.event_windows[event_type].append(event)
AppendToWindow(windows, e) ==
  LET T == TypeKey(e.d)
  IN IF HasWindow(windows, T)
     THEN [windows EXCEPT ![WindowIndex(windows, T)].events = Append(@, e)]
     ELSE Append(windows, [type |-> T, events |-> <<e>>])

\* a cutoff test with <= for <: an event exactly retention_window old expires
MutFrontStateInclusive(e, now, retention_window) ==
  LET dt == Get(e.d, "_timestamp_dt", DateTime(FALSE, now))
  IN IF dt.s = "aware" THEN "raise"
     ELSE IF dt.n <= now - retention_window THEN "expired"
     ELSE "fresh"
\* events[0].get('_timestamp_dt', datetime.utcnow()) < cutoff_time:
\* comparing an aware datetime with the naive cutoff raises TypeError
FrontState(e, now, retention_window) ==
  LET dt == Get(e.d, "_timestamp_dt", DateTime(FALSE, now))
  IN IF dt.s = "aware" THEN "raise"
     ELSE IF dt.n < now - retention_window THEN "expired"
     ELSE "fresh"

\* an eviction that removes every expired event of the deque, wherever it is
MutExpireExhaustive(events, now, retention_window) ==
  [events |-> SelectSeq(events, LAMBDA e : FrontState(e, now, retention_window) # "expired"),
   expired |-> Cardinality({i \in 1..Len(events) :
                             FrontState(events[i], now, retention_window) = "expired"}),
   raised |-> FALSE]
\* the while loop of _cleanup_expired_events on one deque
RECURSIVE ExpireFront(_, _, _)
ExpireFront(events, now, retention_window) ==
  IF events = <<>> THEN [events |-> events, expired |-> 0, raised |-> FALSE]
  ELSE LET fs == FrontState(Head(events), now, retention_window)
       IN IF fs = "raise" THEN [events |-> events, expired |-> 0, raised |-> TRUE]
          ELSE IF fs = "fresh" THEN [events |-> events, expired |-> 0, raised |-> FALSE]
          ELSE LET r == ExpireFront(Tail(events), now, retention_window)
               IN [events |-> r.events, expired |-> r.expired + 1, raised |-> r.raised]

\* the for loop of _cleanup_expired_events from the i-th window on
RECURSIVE CleanupFrom(_, _, _, _)
CleanupFrom(windows, i, now, retention_window) ==
  IF i > Len(windows) THEN [windows |-> windows, expired |-> 0, raised |-> FALSE]
  ELSE LET r == ExpireFront(windows[i].events, now, retention_window)
           w1 == [windows EXCEPT ![i].events = r.events]
       IN IF r.raised THEN [windows |-> w1, expired |-> r.expired, raised |-> TRUE]
          ELSE LET rest == CleanupFrom(w1, i + 1, now, retention_window)
               IN [windows |-> rest.windows, expired |-> r.expired + rest.expired,
                   raised |-> rest.raised]

\* len([w for w in self.event_windows.values() if len(w) > 0])
ActiveWindows(windows) == Cardinality({i \in 1..Len(windows) : windows[i].events # <<>>})

\* StateManager._cleanup_expired_events: the windows and statistics it leaves,
\* and whether it raised part-way
_cleanup_expired_events(windows, st, now, retention_window) ==
  LET r == CleanupFrom(windows, 1, now, retention_window)
  IN [event_windows |-> r.windows,
      stats |-> [st EXCEPT !.events_expired = @ + r.expired,
                           !.windows_active =
                              IF r.raised THEN @ ELSE ActiveWindows(r.windows)],
      raised |-> r.raised]

\* sum(len(events) for events in self.event_windows.values())
RECURSIVE TotalEvents(_)
TotalEvents(windows) ==
  IF windows = <<>> THEN 0 ELSE Len(Head(windows).events) + TotalEvents(Tail(windows))

\* StateManager.get_stats on a store that no thread is changing
StatsOf(windows, st) ==
  [total_events_stored |-> st.total_events_stored,
   events_expired |-> st.events_expired,
   windows_active |-> st.windows_active,
   current_events_stored |-> TotalEvents(windows),
   event_types_tracked |-> Len(windows)]

(* ------------------------------------------------------------------ *)
(* State                                                                *)
(* ------------------------------------------------------------------ *)
VARIABLES
  config,           \* config.yaml: buffer_size, batch_size, retention_window
  schemas,          \* EventValidator.schemas
  now,              \* the clock (datetime.utcnow)
  event_queue,      \* EventAggregator.event_queue, a queue.Queue(maxsize=buffer_size)
  running,          \* EventAggregator.running
  stats,            \* EventAggregator.stats
  event_windows,    \* StateManager.event_windows
  sm_stats,         \* StateManager.stats
  producers,        \* the threads calling receive_event
  workers,          \* the threads start() created, each running _process_events
  reader,           \* a thread polling StateManager.get_stats
  next_id,          \* history: receive_event calls begun so far
  forwarded,        \* history: the _forward_batch calls, in call order
  validated_order,  \* history: [id, worker] of the events in the order they passed validation
  stop_mark,        \* history: ids of the events queued or batched when stop() last ran
  correlation_state, \* StateManager.correlation_state
  last_call,        \* history: the last call made on the store or the validator, and what it gave
  inserted_at       \* history: event id -> the instant add_event appended it

vars == << config, schemas, now, event_queue, running, stats, event_windows,
           sm_stats, producers, workers, reader, next_id, forwarded,
           validated_order, stop_mark, correlation_state, last_call, inserted_at >>

\* retention_window values of the configurations explored, in ticks
RetentionWindows == {1}
\* the timeout of self.event_queue.get(timeout=1.0), in ticks
DequeueTimeout == 1

\* the threads of a behaviour: its producers, and one worker per start() call
Producers == DOMAIN producers
WorkerIds == DOMAIN workers

Configs ==
  [buffer_size : 1..MaxBuffer, batch_size : 1..MaxBatch,
   retention_window : RetentionWindows]

\* the raw events a producer may submit at instant t
ValidEvent ==
  [type |-> PyStr("auth_fail"), user |-> PyStr("alice"), source_ip |-> PyStr("10.0.0.1")]
\* the same with a 'Z' timestamp, as EventGenerator.generate_auth_fail writes it
GeneratedEvent(t) == Put(ValidEvent, "timestamp", IsoZ(t))
\* a required field is missing (integration_test.py, invalid_event)
MissingFieldEvent == [type |-> PyStr("auth_fail"), user |-> PyStr("alice")]
UnknownTypeEvent == Put(ValidEvent, "type", PyStr("dns_query"))
TypeMismatchEvent == Put(ValidEvent, "user", PyInt(7))
EnumViolationEvent == Put(ValidEvent, "method", PyStr("telepathy"))
\* no type key: the type is inferred from the text
UntypedEvent == [message |-> PyStr("network connection failed")]
\* an event older than the retention window
OldEvent(t) == Put(ValidEvent, "timestamp", IsoNaive(t - 2))

\* the events submitted to the pipeline: valid ones, with and without a
\* timezone in the timestamp, and an invalid one
PipelineEvents(t) == {ValidEvent, GeneratedEvent(t), MissingFieldEvent}
\* the events submitted by two producers, or to two workers
RestartEvents == {ValidEvent, MissingFieldEvent}
\* one event for each way of failing validation, and valid ones
ValidationEvents(t) ==
  {ValidEvent, UntypedEvent, MissingFieldEvent, UnknownTypeEvent,
   TypeMismatchEvent, EnumViolationEvent}

\* ret is what the producer's last receive_event call returned
IdleProducer == [pc |-> "idle", ev |-> <<>>, reg |-> 0, ret |-> "none"]
\* batch and cur are the locals of _process_events, reg the value read by a
\* += in progress, wait the instant the timed get began; pre (the store when
\* add_event was entered) and sole (no other worker thread was alive when this
\* one was started) are history
NoWorker ==
  [pc |-> "none", batch |-> <<>>, cur |-> <<>>, reg |-> 0, wait |-> 0, pre |-> <<>>,
   sole |-> TRUE]
IdleReader == [pc |-> "idle", used |-> 0, result |-> <<>>]
NoStop == [stopped |-> FALSE, pending |-> {}]

\* EventAggregator.__init__ and StateManager.__init__
InitWith(cfgs, schemaFiles, P, W) ==
  /\ config \in cfgs
  /\ schemas \in {_load_schemas(f) : f \in schemaFiles}
  /\ now = 0
  /\ event_queue = <<>>
  /\ running = FALSE
  /\ stats = [events_received |-> 0, events_validated |-> 0,
              events_rejected |-> 0, events_forwarded |-> 0]
  /\ event_windows = <<>>
  /\ sm_stats = [total_events_stored |-> 0, events_expired |-> 0, windows_active |-> 0]
  /\ producers = [p \in P |-> IdleProducer]
  /\ workers = [w \in W |-> NoWorker]
  /\ reader = IdleReader
  /\ next_id = 0
  /\ forwarded = <<>>
  /\ validated_order = <<>>
  /\ stop_mark = NoStop
  /\ correlation_state = <<>>
  /\ last_call = <<>>
  /\ inserted_at = <<>>

Init == InitWith(Configs, {"present"}, {"p1"}, {1})

(* ------------------------------------------------------------------ *)
(* receive_event, one call by producer p                                *)
(* ------------------------------------------------------------------ *)
\* line 95, the read of self.stats['events_received'] += 1
ReceiveBegin(p, d) ==
  /\ producers[p].pc = "idle"
  /\ next_id < MaxEvents
  /\ next_id' = next_id + 1
  /\ producers' = [producers EXCEPT ![p] =
       [pc |-> "recv_store", ev |-> [id |-> next_id + 1, d |-> d],
        reg |-> stats.events_received, ret |-> "none"]]
  /\ UNCHANGED << config, schemas, correlation_state, last_call, inserted_at, now, event_queue, running, stats, event_windows,
                  sm_stats, workers, reader, forwarded, validated_order, stop_mark >>

\* line 95, the write of += 1; lines 99-100 give the event a timestamp
ReceiveCount(p) ==
  /\ producers[p].pc = "recv_store"
  /\ stats' = [stats EXCEPT !.events_received = producers[p].reg + 1]
  /\ producers' = [producers EXCEPT ![p].pc = "put", ![p].reg = 0,
       ![p].ev.d = IF Has(@, "timestamp") THEN @ ELSE Put(@, "timestamp", IsoNaive(now))]
  /\ UNCHANGED << config, schemas, correlation_state, last_call, inserted_at, now, event_queue, running, event_windows,
                  sm_stats, workers, reader, next_id, forwarded, validated_order, stop_mark >>

\* a fullness test that lets one event too many in
MutQueueFullOffByOne == Len(event_queue) > config.buffer_size
\* queue.Queue.put(event, block=False): raises queue.Full at once when the
\* queue holds maxsize items; a queue made with maxsize <= 0 is never full
QueueFull == config.buffer_size > 0 /\ Len(event_queue) >= config.buffer_size

\* put(event) with the default block=True: the call waits for a free slot
MutReceivePutBlocking(p) ==
  /\ producers[p].pc = "put"
  /\ ~QueueFull
  /\ event_queue' = Append(event_queue, producers[p].ev)
  /\ producers' = [producers EXCEPT ![p] = [IdleProducer EXCEPT !.ret = "True"]]
  /\ UNCHANGED << config, schemas, correlation_state, last_call, inserted_at, now, running, stats, event_windows, sm_stats,
                  workers, reader, next_id, forwarded, validated_order, stop_mark >>
\* lines 103-108: the put; on queue.Full the read of events_rejected += 1
ReceivePut(p) ==
  /\ producers[p].pc = "put"
  /\ IF ~QueueFull
     THEN /\ event_queue' = Append(event_queue, producers[p].ev)
          /\ producers' = [producers EXCEPT ![p] = [IdleProducer EXCEPT !.ret = "True"]]
     ELSE /\ event_queue' = event_queue
          /\ producers' = [producers EXCEPT ![p].pc = "rej_store",
                                            ![p].reg = stats.events_rejected]
  /\ UNCHANGED << config, schemas, correlation_state, last_call, inserted_at, now, running, stats, event_windows, sm_stats,
                  workers, reader, next_id, forwarded, validated_order, stop_mark >>

\* lines 108-109: the write of events_rejected += 1, return False
ReceiveReject(p) ==
  /\ producers[p].pc = "rej_store"
  /\ stats' = [stats EXCEPT !.events_rejected = producers[p].reg + 1]
  /\ producers' = [producers EXCEPT ![p] = [IdleProducer EXCEPT !.ret = "False"]]
  /\ UNCHANGED << config, schemas, correlation_state, last_call, inserted_at, now, event_queue, running, event_windows,
                  sm_stats, workers, reader, next_id, forwarded, validated_order, stop_mark >>

(* ------------------------------------------------------------------ *)
(* start(), stop() and _process_events, one thread per start() call     *)
(* ------------------------------------------------------------------ *)
Alive(w) == workers[w].pc \notin {"none", "done"}
InAddEvent(w) == workers[w].pc \in {"add", "cleanup"}

\* ids of the events of a sequence
Ids(events) == {events[i].id : i \in 1..Len(events)}
\* ids of the events held in the intake queue, forwarded so far, and stored now
QueuedIds == Ids(event_queue)
ForwardedIds == UNION {Ids(forwarded[i].events) : i \in 1..Len(forwarded)}
StoredIds == UNION {Ids(event_windows[i].events) : i \in 1..Len(event_windows)}

\* start(): sets the flag and starts a new thread on _process_events
Start(w) ==
  /\ workers[w].pc = "none"
  /\ \A v \in WorkerIds : v < w => workers[v].pc # "none"
  /\ running' = TRUE
  /\ workers' = [workers EXCEPT ![w].pc = "loop",
                                ![w].sole = \A v \in WorkerIds : ~Alive(v)]
  /\ UNCHANGED << config, schemas, correlation_state, last_call, inserted_at, now, event_queue, stats, event_windows, sm_stats,
                  producers, reader, next_id, forwarded, validated_order, stop_mark >>

\* stop(): clears the flag (no Lua engine process was started: line 70 is false)
Stop ==
  /\ running
  /\ running' = FALSE
  /\ stop_mark' =
       [stopped |-> TRUE,
        pending |-> QueuedIds \cup
                    UNION {Ids(workers[w].batch) : w \in {v \in WorkerIds : Alive(v)}}]
  /\ UNCHANGED << config, schemas, correlation_state, last_call, inserted_at, now, event_queue, stats, event_windows, sm_stats,
                  producers, workers, reader, next_id, forwarded, validated_order >>

\* a loop that flushes the batch in progress when it finds the flag cleared
MutWorkerLoopFinalFlush(w) ==
  /\ workers[w].pc = "loop"
  /\ IF running
     THEN /\ workers' = [workers EXCEPT ![w].pc = "get", ![w].wait = now]
          /\ UNCHANGED << forwarded, stats >>
     ELSE /\ workers' = [workers EXCEPT ![w].pc = "done", ![w].batch = <<>>]
          /\ forwarded' = IF workers[w].batch = <<>> THEN forwarded
                          ELSE Append(forwarded, [events |-> workers[w].batch,
                                                  trigger |-> "exit", worker |-> w])
          /\ stats' = [stats EXCEPT !.events_forwarded = @ + Len(workers[w].batch)]
  /\ UNCHANGED << config, schemas, correlation_state, last_call, inserted_at, now, event_queue, running, event_windows,
                  sm_stats, producers, reader, next_id, validated_order, stop_mark >>
\* line 118: while self.running
WorkerLoop(w) ==
  /\ workers[w].pc = "loop"
  /\ workers' = [workers EXCEPT ![w].pc = IF running THEN "get" ELSE "done",
                                ![w].wait = IF running THEN now ELSE 0]
  /\ UNCHANGED << config, schemas, correlation_state, last_call, inserted_at, now, event_queue, running, stats, event_windows,
                  sm_stats, producers, reader, next_id, forwarded, validated_order, stop_mark >>

\* line 121: self.event_queue.get(timeout=1.0) returns an event
WorkerDequeue(w) ==
  /\ workers[w].pc = "get"
  /\ event_queue # <<>>
  /\ event_queue' = Tail(event_queue)
  /\ workers' = [workers EXCEPT ![w].pc = "proc", ![w].wait = 0,
                                ![w].cur = Head(event_queue)]
  /\ UNCHANGED << config, schemas, correlation_state, last_call, inserted_at, now, running, stats, event_windows, sm_stats,
                  producers, reader, next_id, forwarded, validated_order, stop_mark >>

\* line 143: `if batch:` on queue.Empty
IdleFlush(batch) == batch # <<>>
\* line 134: len(batch) >= batch_size
BatchFull(batch) == Len(batch) >= config.batch_size

\* _forward_to_lua line 227: json.dumps(event) raises TypeError on a datetime
\* value (the _timestamp_dt that add_event wrote into the dict)
json_dumps_raises(d) == \E f \in DOMAIN d : d[f].k = "datetime"

\* a forward loop that counts only the events json.dumps accepted
MutForwardCountsDelivered(batch) ==
  [count |-> Cardinality({j \in 1..Len(batch) : ~json_dumps_raises(batch[j].d)}),
   errors |-> {batch[i].id : i \in {j \in 1..Len(batch) : json_dumps_raises(batch[j].d)}},
   raised |-> FALSE]
\* a forward loop without the try of _forward_to_lua and _forward_batch: it
\* stops at the first event that cannot be serialized and the error leaves it
MutForwardBatchPropagates(batch) ==
  LET bad == {i \in 1..Len(batch) : json_dumps_raises(batch[i].d)}
  IN [count |-> IF bad = {} THEN Len(batch)
                ELSE (CHOOSE i \in bad : \A j \in bad : i <= j) - 1,
      errors |-> {batch[i].id : i \in bad},
      raised |-> bad # {}]
\* _forward_batch, lines 204-215: every event is handed to _forward_to_lua,
\* which absorbs its own error (line 230), and counted; count is the growth of
\* events_forwarded, errors the events whose forwarding failed, raised whether
\* an error left the call
_forward_batch(batch) ==
  [count |-> Len(batch),
   errors |-> {batch[i].id : i \in {j \in 1..Len(batch) : json_dumps_raises(batch[j].d)}},
   raised |-> FALSE]

\* _forward_batch: one entry of the forward history
ForwardCall(w, batch, trigger) == [events |-> batch, trigger |-> trigger, worker |-> w]

\* an idle flush that forwards the batch and forgets `batch = []`
MutWorkerTimeoutKeepsBatch(w) ==
  /\ workers[w].pc = "get"
  /\ event_queue = <<>>
  /\ now >= workers[w].wait + DequeueTimeout
  /\ IF IdleFlush(workers[w].batch)
     THEN /\ forwarded' = Append(forwarded, ForwardCall(w, workers[w].batch, "idle"))
          /\ stats' = [stats EXCEPT !.events_forwarded = @ + Len(workers[w].batch)]
     ELSE UNCHANGED << forwarded, stats >>
  /\ workers' = [workers EXCEPT ![w].pc = "loop", ![w].wait = 0]
  /\ UNCHANGED << config, schemas, correlation_state, last_call, inserted_at, now, event_queue, running, event_windows, sm_stats,
                  producers, reader, next_id, validated_order, stop_mark >>
\* lines 141-146: the get timed out after a whole timeout with the queue empty;
\* an error leaving _forward_batch here, inside the except clause, would leave
\* the loop and end the thread
WorkerTimeout(w) ==
  /\ workers[w].pc = "get"
  /\ event_queue = <<>>
  /\ now >= workers[w].wait + DequeueTimeout
  /\ IF IdleFlush(workers[w].batch)
     THEN /\ forwarded' = Append(forwarded, ForwardCall(w, workers[w].batch, "idle"))
          /\ stats' = [stats EXCEPT !.events_forwarded =
                                      @ + _forward_batch(workers[w].batch).count]
          /\ workers' =
               IF _forward_batch(workers[w].batch).raised
               THEN [workers EXCEPT ![w].pc = "done", ![w].wait = 0]
               ELSE [workers EXCEPT ![w].pc = "loop", ![w].wait = 0,
                                    ![w].batch = <<>>]
     ELSE /\ workers' = [workers EXCEPT ![w].pc = "loop", ![w].wait = 0]
          /\ UNCHANGED << forwarded, stats >>
  /\ UNCHANGED << config, schemas, correlation_state, last_call, inserted_at, now, event_queue, running, event_windows, sm_stats,
                  producers, reader, next_id, validated_order, stop_mark >>

\* an append that keeps the batch within batch_size by dropping the event
MutBatchAppendBounded(batch, e) ==
  IF Len(batch) >= config.batch_size THEN batch ELSE Append(batch, e)
\* batch.insert(0, normalized_event)
MutBatchAppendFront(batch, e) == <<e>> \o batch
\* line 128: batch.append(normalized_event)
BatchAppend(batch, e) == Append(batch, e)

\* a worker whose thread ends when normalize or validate raises
MutProcessErrorEndsThread(w) ==
  /\ workers[w].pc = "proc"
  /\ LET normalized_event == _normalize_event(workers[w].cur.d, now)
     IN IF \/ normalize_raises(workers[w].cur.d)
           \/ validate_raises(schemas, normalized_event)
        THEN /\ workers' = [workers EXCEPT ![w].pc = "done"]
             /\ UNCHANGED << stats, validated_order >>
        ELSE IF validate(schemas, normalized_event)
        THEN /\ stats' = [stats EXCEPT !.events_validated = @ + 1]
             /\ validated_order' =
                  Append(validated_order, [id |-> workers[w].cur.id, worker |-> w])
             /\ workers' = [workers EXCEPT
                  ![w].pc = "add",
                  ![w].cur = [id |-> workers[w].cur.id, d |-> normalized_event],
                  ![w].batch = BatchAppend(@, [id |-> workers[w].cur.id,
                                               d |-> normalized_event]),
                  ![w].pre = [event_windows |-> event_windows, stats |-> sm_stats]]
        ELSE /\ workers' = [workers EXCEPT ![w].pc = "rej_store",
                                           ![w].reg = stats.events_rejected]
             /\ UNCHANGED << stats, validated_order >>
  /\ UNCHANGED << config, schemas, correlation_state, last_call, inserted_at, now, event_queue, running, event_windows, sm_stats,
                  producers, reader, next_id, forwarded, stop_mark >>
\* lines 124-128 and 137-139: normalize and validate the dequeued event; a valid
\* one is counted and appended to the batch, an invalid one (or one on which
\* normalize or validate raised, line 147) goes on to the read of
\* events_rejected += 1
WorkerProcess(w) ==
  /\ workers[w].pc = "proc"
  /\ LET normalized_event == _normalize_event(workers[w].cur.d, now)
     IN IF /\ ~normalize_raises(workers[w].cur.d)
           /\ ~validate_raises(schemas, normalized_event)
           /\ validate(schemas, normalized_event)
        THEN /\ stats' = [stats EXCEPT !.events_validated = @ + 1]
             /\ validated_order' =
                  Append(validated_order, [id |-> workers[w].cur.id, worker |-> w])
             /\ workers' = [workers EXCEPT
                  ![w].pc = "add",
                  ![w].cur = [id |-> workers[w].cur.id, d |-> normalized_event],
                  ![w].batch = BatchAppend(@, [id |-> workers[w].cur.id,
                                               d |-> normalized_event]),
                  ![w].pre = [event_windows |-> event_windows, stats |-> sm_stats]]
        ELSE /\ workers' = [workers EXCEPT ![w].pc = "rej_store",
                                           ![w].reg = stats.events_rejected]
             /\ UNCHANGED << stats, validated_order >>
  /\ UNCHANGED << config, schemas, correlation_state, last_call, inserted_at, now, event_queue, running, event_windows, sm_stats,
                  producers, reader, next_id, forwarded, stop_mark >>

\* add_event lines 47-62: stamp the event, append it to its window, count it;
\* the batch holds the same dict object, so it sees what add_event writes into it
WorkerAdd(w) ==
  /\ workers[w].pc = "add"
  /\ LET e == [id |-> workers[w].cur.id, d |-> StampEvent(workers[w].cur.d, now)]
     IN /\ event_windows' = AppendToWindow(event_windows, e)
        /\ workers' = [workers EXCEPT ![w].pc = "cleanup", ![w].cur = e,
             ![w].batch = [j \in 1..Len(@) |-> IF @[j].id = e.id THEN e ELSE @[j]]]
  /\ sm_stats' = [sm_stats EXCEPT !.total_events_stored = @ + 1]
  /\ inserted_at' = (workers[w].cur.id :> now) @@ inserted_at
  /\ UNCHANGED << config, schemas, correlation_state, last_call, now, event_queue, running, stats, producers,
                  reader, next_id, forwarded, validated_order, stop_mark >>

\* add_event line 65 and lines 133-136: the eviction pass, then the batch-full
\* check; a TypeError raised by the pass skips the check and reaches line 147,
\* as would an error leaving _forward_batch, before `batch = []`
WorkerCleanup(w) ==
  /\ workers[w].pc = "cleanup"
  /\ LET r == _cleanup_expired_events(event_windows, sm_stats, now, config.retention_window)
     IN /\ event_windows' = r.event_windows
        /\ sm_stats' = r.stats
        /\ IF r.raised
           THEN /\ workers' = [workers EXCEPT ![w].pc = "rej_store", ![w].pre = <<>>,
                                              ![w].reg = stats.events_rejected]
                /\ UNCHANGED << forwarded, stats >>
           ELSE IF BatchFull(workers[w].batch)
           THEN /\ forwarded' = Append(forwarded, ForwardCall(w, workers[w].batch, "full"))
                /\ stats' = [stats EXCEPT !.events_forwarded =
                                            @ + _forward_batch(workers[w].batch).count]
                /\ workers' =
                     IF _forward_batch(workers[w].batch).raised
                     THEN [workers EXCEPT ![w].pc = "rej_store", ![w].pre = <<>>,
                                          ![w].reg = stats.events_rejected]
                     ELSE [workers EXCEPT ![w].pc = "loop", ![w].batch = <<>>,
                                          ![w].cur = <<>>, ![w].pre = <<>>]
           ELSE /\ workers' = [workers EXCEPT ![w].pc = "loop",
                                              ![w].cur = <<>>, ![w].pre = <<>>]
                /\ UNCHANGED << forwarded, stats >>
  /\ UNCHANGED << config, schemas, correlation_state, last_call, inserted_at, now, event_queue, running, producers, reader,
                  next_id, validated_order, stop_mark >>

\* lines 138 and 149: the write of events_rejected += 1
WorkerReject(w) ==
  /\ workers[w].pc = "rej_store"
  /\ stats' = [stats EXCEPT !.events_rejected = workers[w].reg + 1]
  /\ workers' = [workers EXCEPT ![w].pc = "loop", ![w].reg = 0, ![w].cur = <<>>]
  /\ UNCHANGED << config, schemas, correlation_state, last_call, inserted_at, now, event_queue, running, event_windows, sm_stats,
                  producers, reader, next_id, forwarded, validated_order, stop_mark >>

(* ------------------------------------------------------------------ *)
(* StateManager.add_event as one uninterrupted call, and get_stats read *)
(* from another thread                                                  *)
(* ------------------------------------------------------------------ *)
\* an add_event that runs its eviction pass before the append, not after
MutAddEvictsBeforeAppend(windows, st, e, now_, retention_window) ==
  LET stamped == [id |-> e.id, d |-> StampEvent(e.d, now_)]
      r == _cleanup_expired_events(windows,
                                   [st EXCEPT !.total_events_stored = @ + 1],
                                   now_, retention_window)
  IN [event_windows |-> AppendToWindow(r.event_windows, stamped),
      stats |-> r.stats, raised |-> r.raised]
\* StateManager.add_event: the store it leaves and whether it raised
add_event(windows, st, e, now_, retention_window) ==
  LET stamped == [id |-> e.id, d |-> StampEvent(e.d, now_)]
  IN _cleanup_expired_events(AppendToWindow(windows, stamped),
                             [st EXCEPT !.total_events_stored = @ + 1],
                             now_, retention_window)

\* get_stats line 197: the generator over self.event_windows.values() is created;
\* the dict iterator remembers the dict's size
ReaderBegin ==
  /\ reader.pc = "idle"
  /\ reader' = [reader EXCEPT !.pc = "iter", !.used = Len(event_windows)]
  /\ UNCHANGED << config, schemas, correlation_state, last_call, inserted_at, now, event_queue, running, stats, event_windows,
                  sm_stats, producers, workers, next_id, forwarded, validated_order, stop_mark >>

\* what one get_stats call gave: a RuntimeError or a snapshot; with it, when
\* exactly one worker was inside add_event, the store's statistics before and
\* after that whole add_event call
ReadResult(failed, snap, concurrent, pre, post) ==
  [failed |-> failed, snap |-> snap, concurrent |-> concurrent,
   pre |-> pre, post |-> post]

\* get_stats lines 197-204: the iteration ends with RuntimeError (dictionary
\* changed size during iteration) when a key was added since it began; else
\* the sum and the counters are read
ReaderEnd ==
  /\ reader.pc = "iter"
  /\ LET inside == {w \in WorkerIds : InAddEvent(w)}
         snap == StatsOf(event_windows, sm_stats)
     IN IF Cardinality(inside) = 1
        THEN LET w == CHOOSE v \in inside : TRUE
                 after == add_event(workers[w].pre.event_windows, workers[w].pre.stats,
                                    workers[w].cur, now, config.retention_window)
             IN reader' = [reader EXCEPT !.pc = "idle", !.used = 0,
                  !.result = << ReadResult(Len(event_windows) # reader.used, snap, TRUE,
                       StatsOf(workers[w].pre.event_windows, workers[w].pre.stats),
                       StatsOf(after.event_windows, after.stats)) >>]
        ELSE reader' = [reader EXCEPT !.pc = "idle", !.used = 0,
                  !.result = << ReadResult(Len(event_windows) # reader.used, snap, FALSE,
                                           snap, snap) >>]
  /\ UNCHANGED << config, schemas, correlation_state, last_call, inserted_at, now, event_queue, running, stats, event_windows,
                  sm_stats, producers, workers, next_id, forwarded, validated_order, stop_mark >>

(* ------------------------------------------------------------------ *)
(* The clock.  Computation takes no time: the clock advances only when  *)
(* every call in progress has returned and every worker is blocked in   *)
(* its timed get with the queue empty and the timeout not yet reached.  *)
(* ------------------------------------------------------------------ *)
Blocked(w) ==
  \/ ~Alive(w)
  \/ /\ workers[w].pc = "get"
     /\ event_queue = <<>>
     /\ now < workers[w].wait + DequeueTimeout

Tick ==
  /\ now < MaxTime
  /\ \A p \in Producers : producers[p].pc = "idle"
  /\ reader.pc = "idle"
  /\ \A w \in WorkerIds : Blocked(w)
  /\ now' = now + 1
  /\ UNCHANGED << config, schemas, correlation_state, last_call, inserted_at, event_queue, running, stats, event_windows,
                  sm_stats, producers, workers, reader, next_id, forwarded,
                  validated_order, stop_mark >>

\* every step but the start of a receive_event call and the reader's
PipelineSteps ==
  \/ \E p \in Producers : ReceiveCount(p)
  \/ \E p \in Producers : ReceivePut(p)
  \/ \E p \in Producers : ReceiveReject(p)
  \/ \E w \in WorkerIds : Start(w)
  \/ Stop
  \/ \E w \in WorkerIds : WorkerLoop(w)
  \/ \E w \in WorkerIds : WorkerDequeue(w)
  \/ \E w \in WorkerIds : WorkerTimeout(w)
  \/ \E w \in WorkerIds : WorkerProcess(w)
  \/ \E w \in WorkerIds : WorkerAdd(w)
  \/ \E w \in WorkerIds : WorkerCleanup(w)
  \/ \E w \in WorkerIds : WorkerReject(w)
  \/ Tick

\* One producer and the worker of one start() call
Next ==
  \/ \E p \in Producers : \E d \in PipelineEvents(now) : ReceiveBegin(p, d)
  \/ PipelineSteps

Spec == Init /\ [][Next]_vars

\* Two producers calling receive_event concurrently
InitProducers ==
  InitWith({c \in Configs : c.batch_size = MaxBatch}, {"present"}, {"p1", "p2"}, {1})
NextProducers ==
  \/ \E p \in Producers : \E d \in RestartEvents : ReceiveBegin(p, d)
  \/ PipelineSteps
SpecProducers == InitProducers /\ [][NextProducers]_vars

\* One producer submitting an event for each way of failing validation,
\* through a queue of one slot
InitValidation ==
  InitWith({c \in Configs : c.buffer_size = 1 /\ c.batch_size = MaxBatch},
           {"present"}, {"p1"}, {1})
NextValidation ==
  \/ \E p \in Producers : \E d \in ValidationEvents(now) : ReceiveBegin(p, d)
  \/ PipelineSteps
SpecValidation == InitValidation /\ [][NextValidation]_vars

\* start() called twice, before or after stop(): two worker threads on a
\* queue of one slot
InitRestart ==
  InitWith({c \in Configs : c.buffer_size = 1}, {"present"}, {"p1"}, {1, 2})
NextRestart ==
  \/ \E p \in Producers : \E d \in RestartEvents : ReceiveBegin(p, d)
  \/ PipelineSteps
SpecRestart == InitRestart /\ [][NextRestart]_vars

\* A reader polling get_stats beside one producer and one worker on a queue
\* of one slot
InitRead ==
  InitWith({c \in Configs : c.buffer_size = 1 /\ c.batch_size = MaxBatch},
           {"present"}, {"p1"}, {1})
NextRead ==
  \/ \E p \in Producers : \E d \in PipelineEvents(now) : ReceiveBegin(p, d)
  \/ PipelineSteps
  \/ ReaderBegin
  \/ ReaderEnd
SpecRead == InitRead /\ [][NextRead]_vars

(* ------------------------------------------------------------------ *)
(* The temporal store called directly, as test_state_manager does:      *)
(* add_event, the queries and the correlation state, from one thread.   *)
(* A query gives [raised, ...]: raised tells that a TypeError left it.  *)
(* ------------------------------------------------------------------ *)
\* event.get('_timestamp_dt', datetime.utcnow())
EventTime(e, now_) == Get(e.d, "_timestamp_dt", DateTime(FALSE, now_))

\* StateManager.get_events_by_type; window_seconds is None or an int.
\* event_time >= cutoff_time raises TypeError on an aware event_time
get_events_by_type(windows, event_type, window_seconds, now_) ==
  LET events == WindowOf(windows, event_type)
  IN IF window_seconds = None THEN [raised |-> FALSE, events |-> events]
     ELSE IF \E i \in 1..Len(events) : EventTime(events[i], now_).s = "aware"
     THEN [raised |-> TRUE, events |-> <<>>]
     ELSE [raised |-> FALSE,
           events |-> SelectSeq(events,
                        LAMBDA e : EventTime(e, now_).n >= now_ - window_seconds.n)]

\* a count that ignores window_seconds: the length of the whole window
MutCountWholeWindow(windows, event_type, window_seconds, now_) ==
  [raised |-> FALSE, count |-> Len(WindowOf(windows, event_type))]
\* StateManager.count_events
count_events(windows, event_type, window_seconds, now_) ==
  LET r == get_events_by_type(windows, event_type, window_seconds, now_)
  IN [raised |-> r.raised, count |-> Len(r.events)]

\* StateManager.get_unique_values: a set comprehension, which hashes every
\* value (TypeError on a list or dict) and keeps one of the values equal by ==
get_unique_values(windows, event_type, field, window_seconds, now_) ==
  LET r == get_events_by_type(windows, event_type, window_seconds, now_)
      having == SelectSeq(r.events, LAMBDA e : Has(e.d, field))
  IN IF r.raised \/ \E i \in 1..Len(having) : Unhashable(having[i].d[field])
     THEN [raised |-> TRUE, values |-> {}]
     ELSE [raised |-> FALSE,
           values |-> {having[i].d[field] : i \in
                         {k \in 1..Len(having) :
                            \A j \in 1..(k - 1) :
                              ~PyEq(having[j].d[field], having[k].d[field])}}]

\* StateManager.get_events_by_field: e.get(field) == value, so an event
\* without the field matches the value None
get_events_by_field(windows, event_type, field, value, window_seconds, now_) ==
  LET r == get_events_by_type(windows, event_type, window_seconds, now_)
  IN [raised |-> r.raised,
      events |-> SelectSeq(r.events, LAMBDA e : PyEq(Get(e.d, field, None), value))]

\* StateManager.get_stats called from the thread that owns the store
get_stats(windows, st, cs) ==
  [total_events_stored |-> st.total_events_stored,
   events_expired |-> st.events_expired,
   windows_active |-> st.windows_active,
   current_events_stored |-> TotalEvents(windows),
   event_types_tracked |-> Len(windows),
   correlation_states_active |-> Cardinality(DOMAIN cs)]

\* StateManager.get_correlation_state: the entry or None
get_correlation_state(cs, correlation_id) ==
  IF correlation_id \in DOMAIN cs THEN cs[correlation_id] ELSE None
\* a set that updates the entry already there instead of replacing it
MutSetMergesOld(cs, correlation_id, state, now_) ==
  Put(cs, correlation_id,
      Put(state @@ Get(cs, correlation_id, <<>>), "updated_at", IsoNaive(now_)))
\* StateManager.set_correlation_state: {**state, 'updated_at': utcnow().isoformat()}
set_correlation_state(cs, correlation_id, state, now_) ==
  Put(cs, correlation_id, Put(state, "updated_at", IsoNaive(now_)))
\* a clear that empties the whole map
MutClearDropsAll(cs, correlation_id) ==
  IF correlation_id \in DOMAIN cs THEN <<>> ELSE cs
\* StateManager.clear_correlation_state
clear_correlation_state(cs, correlation_id) ==
  IF correlation_id \in DOMAIN cs
  THEN [k \in DOMAIN cs \ {correlation_id} |-> cs[k]]
  ELSE cs

\* add_event calls made on the store in one behaviour
MaxInserts == 2

\* the events given to add_event at instant t: what the pipeline passes on
\* (normalized, naive timestamp), an event of another type, one stamped
\* before the retention window, one with a 'Z' timestamp (the tests and the
\* generator), one with a numeric and one with an unparsable timestamp
FreshEvent(t) == _normalize_event(Put(ValidEvent, "timestamp", IsoNaive(t)), t)
OtherTypeEvent(t) ==
  [type |-> PyStr("network_connect"), message |-> PyStr("connection reset"),
   user |-> PyStr("bob"), timestamp |-> IsoNaive(t)]
NumericTimeEvent(t) == Put(ValidEvent, "timestamp", PyInt(t))
UnparsableTimeEvent == Put(ValidEvent, "timestamp", PyStr("yesterday"))
StoreEvents(t) ==
  {FreshEvent(t), OtherTypeEvent(t), OldEvent(t), GeneratedEvent(t),
   NumericTimeEvent(t), UnparsableTimeEvent}

\* the arguments of the queries
QueryTypes == {"auth_fail", "dns_query"}
QueryWindows == {None} \cup {PyInt(n) : n \in 0..1}
QueryFields == {"user", "_metadata"}

\* one add_event call, to its return or to the TypeError that leaves it
StoreAdd(d) ==
  /\ next_id < MaxInserts
  /\ LET e == [id |-> next_id + 1, d |-> d]
         r == add_event(event_windows, sm_stats, e, now, config.retention_window)
     IN /\ event_windows' = r.event_windows
        /\ sm_stats' = r.stats
        /\ last_call' = << [op |-> "add_event", raised |-> r.raised,
                            event |-> [id |-> e.id, d |-> StampEvent(d, now)]] >>
        /\ inserted_at' = (e.id :> now) @@ inserted_at
  /\ next_id' = next_id + 1
  /\ UNCHANGED << config, schemas, now, event_queue, running, stats, producers,
                  workers, reader, forwarded, validated_order, stop_mark,
                  correlation_state >>

\* one get_events_by_type call
StoreQuery(T, ws) ==
  /\ last_call' = << [op |-> "get_events_by_type", type |-> T, window_seconds |-> ws,
                      result |-> get_events_by_type(event_windows, T, ws, now)] >>
  /\ event_windows' = WindowsAfterGet(event_windows, T)
  /\ UNCHANGED << config, schemas, now, event_queue, running, stats, sm_stats,
                  producers, workers, reader, next_id, forwarded,
                  validated_order, stop_mark, correlation_state, inserted_at >>

\* one count_events call
StoreCount(T, ws) ==
  /\ last_call' = << [op |-> "count_events", type |-> T, window_seconds |-> ws,
                      result |-> count_events(event_windows, T, ws, now)] >>
  /\ event_windows' = WindowsAfterGet(event_windows, T)
  /\ UNCHANGED << config, schemas, now, event_queue, running, stats, sm_stats,
                  producers, workers, reader, next_id, forwarded,
                  validated_order, stop_mark, correlation_state, inserted_at >>

\* one get_unique_values call
StoreUnique(T, field, ws) ==
  /\ last_call' = << [op |-> "get_unique_values", type |-> T, field |-> field,
                      window_seconds |-> ws,
                      result |-> get_unique_values(event_windows, T, field, ws, now)] >>
  /\ event_windows' = WindowsAfterGet(event_windows, T)
  /\ UNCHANGED << config, schemas, now, event_queue, running, stats, sm_stats,
                  producers, workers, reader, next_id, forwarded,
                  validated_order, stop_mark, correlation_state, inserted_at >>

\* A store of its own: no aggregator thread runs
InitStore ==
  InitWith({c \in Configs : c.buffer_size = 1 /\ c.batch_size = 1},
           {"present"}, {"p1"}, {1})
NextStore ==
  \/ \E d \in StoreEvents(now) : StoreAdd(d)
  \/ \E T \in QueryTypes : \E ws \in QueryWindows : StoreQuery(T, ws)
  \/ \E T \in QueryTypes : \E ws \in QueryWindows : StoreCount(T, ws)
  \/ \E T \in QueryTypes : \E f \in QueryFields : \E ws \in QueryWindows :
       StoreUnique(T, f, ws)
  \/ Tick
SpecStore == InitStore /\ [][NextStore]_vars

(* ------------------------------------------------------------------ *)
(* The correlation-state map beside the windows: set, clear and get    *)
(* calls interleaved with add_event calls and the passing of time       *)
(* ------------------------------------------------------------------ *)
CorrelationIds == {"c1", "c2"}
\* state dictionaries a caller passes: the second lacks a key of the first and
\* brings an 'updated_at' of its own
StateA == [count |-> PyInt(1), user |-> PyStr("alice")]
StateB == [count |-> PyInt(2), updated_at |-> PyStr("manual")]
CallerStates == {StateA, StateB}
\* events inserted meanwhile: one within the retention window, one behind it
CorrelationEvents(t) == {FreshEvent(t), OldEvent(t)}

\* one set_correlation_state call; before is the entry it found
SetState(id, state) ==
  /\ correlation_state' = set_correlation_state(correlation_state, id, state, now)
  /\ last_call' = << [op |-> "set_correlation_state", id |-> id, state |-> state,
                      at |-> now,
                      before |-> get_correlation_state(correlation_state, id)] >>
  /\ UNCHANGED << config, schemas, now, event_queue, running, stats, event_windows,
                  sm_stats, producers, workers, reader, next_id, forwarded,
                  validated_order, stop_mark, inserted_at >>

\* one clear_correlation_state call
ClearState(id) ==
  /\ correlation_state' = clear_correlation_state(correlation_state, id)
  /\ last_call' = << [op |-> "clear_correlation_state", id |-> id, at |-> now,
                      before |-> get_correlation_state(correlation_state, id)] >>
  /\ UNCHANGED << config, schemas, now, event_queue, running, stats, event_windows,
                  sm_stats, producers, workers, reader, next_id, forwarded,
                  validated_order, stop_mark, inserted_at >>

\* one get_correlation_state call
GetState(id) ==
  /\ last_call' = << [op |-> "get_correlation_state", id |-> id, at |-> now,
                      result |-> get_correlation_state(correlation_state, id)] >>
  /\ UNCHANGED << config, schemas, now, event_queue, running, stats, event_windows,
                  sm_stats, producers, workers, reader, next_id, forwarded,
                  validated_order, stop_mark, correlation_state, inserted_at >>

InitCorrelation == InitStore
NextCorrelation ==
  \/ \E id \in CorrelationIds : \E state \in CallerStates : SetState(id, state)
  \/ \E id \in CorrelationIds : ClearState(id)
  \/ \E id \in CorrelationIds : GetState(id)
  \/ \E d \in CorrelationEvents(now) : StoreAdd(d)
  \/ Tick
SpecCorrelation == InitCorrelation /\ [][NextCorrelation]_vars

(* ------------------------------------------------------------------ *)
(* The validator called directly on events of every shape               *)
(* ------------------------------------------------------------------ *)
\* the field is not in the event
Absent == V("absent", "", 0)
\* the event holding the fields that are given a value
MakeEvent(full) == [k \in {f \in DOMAIN full : full[f] # Absent} |-> full[k]]
\* values of each field: absent, right, and wrong in type or in enum
TypeValues ==
  {Absent, PyStr("auth_fail"), PyStr("network_connect"), PyStr("dns_query"),
   PyStr(""), V("list", "", 0)}
UserValues == {Absent, PyStr("alice"), PyInt(7)}
SourceIpValues == {Absent, PyStr("10.0.0.1")}
PortValues == {Absent, PyInt(22), PyBool(TRUE), PyStr("22")}
SuccessValues == {Absent, PyBool(FALSE), PyInt(1)}
MethodValues == {Absent, PyStr("password"), PyStr("telepathy")}
MessageValues == {Absent, PyStr("connection reset")}
\* a field no schema declares
SourceValues == {Absent, V("dict", "", 0)}

\* one validate call; validate keeps nothing between calls, so a behaviour
\* makes one
ValidateCall(event) ==
  /\ last_call = <<>>
  /\ last_call' = << [op |-> "validate", event |-> event,
                      raised |-> validate_raises(schemas, event),
                      result |-> validate(schemas, event)] >>
  /\ UNCHANGED << config, schemas, now, event_queue, running, stats, event_windows,
                  sm_stats, producers, workers, reader, next_id, forwarded,
                  validated_order, stop_mark, correlation_state, inserted_at >>

\* the schema file is there, missing, or not JSON
InitValidator ==
  InitWith({c \in Configs : c.buffer_size = 1 /\ c.batch_size = 1},
           {"present", "missing", "unparsable"}, {"p1"}, {1})
NextValidator ==
  \E ty \in TypeValues : \E u \in UserValues : \E ip \in SourceIpValues :
    \E po \in PortValues : \E su \in SuccessValues : \E me \in MethodValues :
      \E msg \in MessageValues : \E src \in SourceValues :
        ValidateCall(MakeEvent([type |-> ty, user |-> u, source_ip |-> ip,
                                port |-> po, success |-> su, method |-> me,
                                message |-> msg, _source |-> src]))
SpecValidator == InitValidator /\ [][NextValidator]_vars

(* ------------------------------------------------------------------ *)
(* _normalize_event called directly on raw events of every shape        *)
(* ------------------------------------------------------------------ *)
\* values of the fields of a raw event; Absent leaves the field out
RawTypeValues == {Absent, PyStr("dns_query"), PyStr(""), None}
RawMessageValues ==
  {Absent, PyStr("authentication failed"), PyStr("authenticated"),
   PyStr("network down"), PyStr("connection reset"), PyStr("hello")}
RawProcessValues == {Absent, PyStr("sshd")}
RawFileValues == {Absent, PyStr("/etc/passwd")}
RawTimestampValues == {Absent, PyInt(1), OutOfRangeNumber}

\* one _normalize_event call: type_set is normalized['type'] after line 166,
\* result the event returned (the raw event when line 171 raised);
\* _normalize_event keeps nothing between calls, so a behaviour makes one
NormalizeCall(event) ==
  /\ last_call = <<>>
  /\ last_call' =
       << [op |-> "_normalize_event", event |-> event,
           type_set |-> IF Has(event, "type") THEN event["type"]
                        ELSE PyStr(_infer_event_type(event)),
           raised |-> normalize_raises(event),
           result |-> IF normalize_raises(event) THEN event
                      ELSE _normalize_event(event, now)] >>
  /\ UNCHANGED << config, schemas, now, event_queue, running, stats, event_windows,
                  sm_stats, producers, workers, reader, next_id, forwarded,
                  validated_order, stop_mark, correlation_state, inserted_at >>

InitNormalize == InitStore
NextNormalize ==
  \E ty \in RawTypeValues : \E msg \in RawMessageValues :
    \E pr \in RawProcessValues : \E fi \in RawFileValues :
      \E ts \in RawTimestampValues :
        NormalizeCall(MakeEvent([type |-> ty, message |-> msg, process_name |-> pr,
                                 file_path |-> fi, timestamp |-> ts]))
SpecNormalize == InitNormalize /\ [][NextNormalize]_vars

(* ------------------------------------------------------------------ *)
(* main reading records from stdin: records that do not decode, and     *)
(* events on which normalize, validate or the store raise                *)
(* ------------------------------------------------------------------ *)
\* valid but for the timestamp: None, and a number out of range
NoneTimeEvent == Put(ValidEvent, "timestamp", None)
HugeTimeEvent == Put(ValidEvent, "timestamp", OutOfRangeNumber)
\* the type is a list
ListTypeEvent == Put(ValidEvent, "type", V("list", "", 0))
BadInputEvents(t) ==
  {ValidEvent, UnparsableTimeEvent, NoneTimeEvent, HugeTimeEvent, ListTypeEvent,
   GeneratedEvent(t)}

\* main lines 275-287: json.loads raises JSONDecodeError on the line read; the
\* handler prints it and the loop goes on to the next line
MainBadRecord(p) ==
  /\ producers[p].pc = "idle"
  /\ last_call' = << [op |-> "main", record |-> "undecodable", at |-> now] >>
  /\ UNCHANGED << config, schemas, now, event_queue, running, stats, event_windows,
                  sm_stats, producers, workers, reader, next_id, forwarded,
                  validated_order, stop_mark, correlation_state, inserted_at >>

InitBadInput ==
  InitWith({c \in Configs : c.buffer_size = 1 /\ c.batch_size = MaxBatch},
           {"present"}, {"p1"}, {1})
NextBadInput ==
  \/ \E p \in Producers : \E d \in BadInputEvents(now) : ReceiveBegin(p, d)
  \/ \E p \in Producers : MainBadRecord(p)
  \/ PipelineSteps
SpecBadInput == InitBadInput /\ [][NextBadInput]_vars

\* the worker thread is scheduled: a step it can take is taken
WorkerSteps ==
  \E w \in WorkerIds :
    \/ WorkerLoop(w) \/ WorkerDequeue(w) \/ WorkerTimeout(w) \/ WorkerProcess(w)
    \/ WorkerAdd(w) \/ WorkerCleanup(w) \/ WorkerReject(w)
\* events on which normalize, validate and the store raise, and a valid one,
\* with a worker thread that is scheduled
ErrorEvents(t) == {ValidEvent, HugeTimeEvent, ListTypeEvent, GeneratedEvent(t)}
NextErrors ==
  \/ \E p \in Producers : \E d \in ErrorEvents(now) : ReceiveBegin(p, d)
  \/ PipelineSteps
SpecErrors == InitBadInput /\ [][NextErrors]_vars /\ WF_vars(WorkerSteps)

\* A configuration that is not valid: buffer_size or batch_size is 0
BadConfigs ==
  {c \in [buffer_size : 0..1, batch_size : 0..1, retention_window : RetentionWindows] :
     c.buffer_size = 0 \/ c.batch_size = 0}
InitBadConfig == InitWith(BadConfigs, {"present"}, {"p1"}, {1})
SpecBadConfig == InitBadConfig /\ [][Next]_vars

(* ------------------------------------------------------------------ *)
(* Every read-only call of the store, between add_event and            *)
(* set_correlation_state calls and the passing of time                  *)
(* ------------------------------------------------------------------ *)
\* the events stored: without and with the service field that
\* generate_auth_fail writes, fresh and expired
QueriedEvents(t) ==
  {FreshEvent(t), Put(FreshEvent(t), "service", PyStr("ssh")), OldEvent(t)}
\* the arguments of the queries: a field some events lack and one whose values
\* are dicts; the value None and a value some event has; the whole window and
\* the last tick
FieldArgs == {"service", "_metadata"}
ValueArgs == {None, PyStr("ssh")}
WindowArgs == {None, PyInt(1)}

\* one get_events_by_field call
StoreByField(T, field, value, ws) ==
  /\ last_call' = << [op |-> "get_events_by_field", type |-> T, field |-> field,
                      value |-> value, window_seconds |-> ws,
                      result |-> get_events_by_field(event_windows, T, field, value,
                                                     ws, now)] >>
  /\ event_windows' = WindowsAfterGet(event_windows, T)
  /\ UNCHANGED << config, schemas, now, event_queue, running, stats, sm_stats,
                  producers, workers, reader, next_id, forwarded,
                  validated_order, stop_mark, correlation_state, inserted_at >>

\* one get_stats call
StoreStats ==
  /\ last_call' = << [op |-> "get_stats",
                      result |-> get_stats(event_windows, sm_stats, correlation_state)] >>
  /\ UNCHANGED << config, schemas, now, event_queue, running, stats, event_windows,
                  sm_stats, producers, workers, reader, next_id, forwarded,
                  validated_order, stop_mark, correlation_state, inserted_at >>

NextQueries ==
  \/ \E d \in QueriedEvents(now) : StoreAdd(d)
  \/ SetState("c1", StateA)
  \/ \E T \in QueryTypes : \E ws \in WindowArgs : StoreQuery(T, ws)
  \/ \E T \in QueryTypes : \E ws \in WindowArgs : StoreCount(T, ws)
  \/ \E T \in QueryTypes : \E f \in FieldArgs : \E ws \in WindowArgs :
       StoreUnique(T, f, ws)
  \/ \E T \in QueryTypes : \E f \in FieldArgs : \E v \in ValueArgs :
       \E ws \in WindowArgs : StoreByField(T, f, v, ws)
  \/ \E id \in CorrelationIds : GetState(id)
  \/ StoreStats
  \/ Tick
SpecQueries == InitStore /\ [][NextQueries]_vars

(* ------------------------------------------------------------------ *)
(* Properties                                                           *)
(* ------------------------------------------------------------------ *)
\* C1: a receive_event call that reaches its put while the queue holds
\* buffer_size events does not wait (the put can always complete), leaves the
\* queue as it is, writes events_rejected as the value it read plus one, leaves
\* the other counters alone and returns False.
C1_FullQueueRejects ==
  /\ [](\A p \in Producers : producers[p].pc = "put" => ENABLED ReceivePut(p))
  /\ [][\A p \in Producers :
          /\ ( /\ producers[p].pc = "put"
               /\ Len(event_queue) >= config.buffer_size
               /\ producers'[p] # producers[p] )
             => /\ event_queue' = event_queue
                /\ stats' = stats
                /\ producers'[p].pc = "rej_store"
                /\ producers'[p].reg = stats.events_rejected
          /\ ( /\ producers[p].pc = "rej_store"
               /\ producers'[p] # producers[p] )
             => /\ event_queue' = event_queue
                /\ stats' = [stats EXCEPT !.events_rejected = producers[p].reg + 1]
                /\ producers'[p].pc = "idle"
                /\ producers'[p].ret = "False"]_vars
\* a call on a full queue has returned False
C1_Witness ==
  /\ \E p \in Producers : producers[p].ret = "False"
  /\ Len(event_queue) = config.buffer_size
  /\ stats.events_rejected >= 1

\* C2: the intake queue never holds more than buffer_size events, whatever the
\* interleaving of two producers and the worker.
C2_QueueBounded == Len(event_queue) <= config.buffer_size
\* two producers raced for the last free slot: the queue is full, one call
\* has returned True and the other is being refused
C2_Witness ==
  /\ Len(event_queue) = config.buffer_size
  /\ \E p, q \in Producers :
       /\ producers[p].ret = "True"
       /\ producers[q].pc = "rej_store"

\* the event as submitted: without the keys receive_event, _normalize_event
\* and add_event add
Submitted(d) ==
  [f \in DOMAIN d \ {"timestamp", "_metadata", "_timestamp_dt"} |-> d[f]]
\* the submitted events that fail validation: unknown type, missing required
\* field, type mismatch, enum violation
FailsValidation(d) ==
  Submitted(d) \in {UnknownTypeEvent, MissingFieldEvent, TypeMismatchEvent,
                    EnumViolationEvent}

\* C3: an event failing validation is in no window of the store and in no
\* forwarded batch or batch in progress; the worker's processing of it leaves
\* events_validated and the store alone and writes events_rejected as the
\* value it read plus one.
C3_InvalidRejected ==
  /\ [](/\ \A i \in 1..Len(event_windows) : \A j \in 1..Len(event_windows[i].events) :
             ~FailsValidation(event_windows[i].events[j].d)
        /\ \A i \in 1..Len(forwarded) : \A j \in 1..Len(forwarded[i].events) :
             ~FailsValidation(forwarded[i].events[j].d)
        /\ \A w \in WorkerIds : \A j \in 1..Len(workers[w].batch) :
             ~FailsValidation(workers[w].batch[j].d))
  /\ [][\A w \in WorkerIds :
          /\ ( /\ workers[w].pc = "proc"
               /\ FailsValidation(workers[w].cur.d)
               /\ workers'[w] # workers[w] )
             => /\ stats' = stats
                /\ event_windows' = event_windows
                /\ forwarded' = forwarded
                /\ workers'[w].batch = workers[w].batch
                /\ workers'[w].pc = "rej_store"
                /\ workers'[w].reg = stats.events_rejected
          /\ ( /\ workers[w].pc = "rej_store"
               /\ workers'[w] # workers[w] )
             => /\ stats' = [stats EXCEPT !.events_rejected = workers[w].reg + 1]
                /\ event_windows' = event_windows
                /\ forwarded' = forwarded]_vars
\* every call was accepted by the queue and every event was rejected by the
\* worker: nothing is stored, batched or forwarded
C3_Witness ==
  /\ next_id = MaxEvents
  /\ stats.events_received = MaxEvents
  /\ stats.events_rejected = MaxEvents
  /\ stats.events_validated = 0
  /\ event_queue = <<>>
  /\ event_windows = <<>>
  /\ forwarded = <<>>
  /\ \A w \in WorkerIds : workers[w].pc = "get" /\ workers[w].batch = <<>>

\* C4: a forward call made after a dequeued event carries exactly batch_size
\* events, and one made on an idle timeout carries between 1 and
\* batch_size - 1 events.
C4_BatchSizes ==
  \A i \in 1..Len(forwarded) :
    /\ forwarded[i].trigger = "full" => Len(forwarded[i].events) = config.batch_size
    /\ forwarded[i].trigger = "idle" =>
         /\ Len(forwarded[i].events) >= 1
         /\ Len(forwarded[i].events) <= config.batch_size - 1

\* C5: a timed-out get (the worker goes from its get back to the loop test
\* without an event) with a non-empty batch makes one forward call carrying
\* the whole batch and empties the batch; with an empty batch it makes none.
C5_TimeoutFlush ==
  [][\A w \in WorkerIds :
       (workers[w].pc = "get" /\ workers'[w].pc = "loop")
       => /\ workers'[w].batch = <<>>
          /\ event_queue' = event_queue
          /\ event_windows' = event_windows
          /\ IF workers[w].batch # <<>>
             THEN /\ Len(forwarded') = Len(forwarded) + 1
                  /\ SubSeq(forwarded', 1, Len(forwarded)) = forwarded
                  /\ forwarded'[Len(forwarded')].events = workers[w].batch
             ELSE forwarded' = forwarded]_vars
\* an idle flush has forwarded a partial batch, and the worker has since timed
\* out again with its batch empty
C5_Witness ==
  /\ \E i \in 1..Len(forwarded) : forwarded[i].trigger = "idle"
  /\ \E w \in WorkerIds :
       /\ workers[w].pc = "get"
       /\ workers[w].batch = <<>>
       /\ workers[w].wait = MaxTime
  /\ event_queue = <<>>

\* the instant a batched event was validated (its _metadata.received_at)
BatchedAt(e) == e.d["_metadata"].n

\* C6: while the worker runs and stop() has not been called, an event in the
\* batch in progress has waited there at most one dequeue timeout, whatever
\* the producers submit after it.
C6_BoundedWait ==
  ~stop_mark.stopped =>
    \A w \in WorkerIds : Alive(w) =>
      \A j \in 1..Len(workers[w].batch) :
        now - BatchedAt(workers[w].batch[j]) <= DequeueTimeout

\* ids of a sequence of events, in order
IdSeq(events) == [i \in 1..Len(events) |-> events[i].id]
\* the events of a sequence of forward calls, concatenated in call order
RECURSIVE Concatenation(_)
Concatenation(calls) ==
  IF calls = <<>> THEN <<>>
  ELSE IdSeq(Head(calls).events) \o Concatenation(Tail(calls))
IsPrefix(a, b) == Len(a) <= Len(b) /\ SubSeq(b, 1, Len(a)) = a
NoDuplicates(q) == \A i, j \in 1..Len(q) : q[i] = q[j] => i = j
ByWorker(q, w) == SelectSeq(q, LAMBDA r : r.worker = w)

C8_NothingAfterStop ==
  [][(\A w \in WorkerIds : workers[w].sole) =>
       \A id \in stop_mark.pending :
         /\ id \in StoredIds' => id \in StoredIds
         /\ id \in ForwardedIds' => id \in ForwardedIds]_vars
\* C8 amended: a worker leaves its loop only at the loop test that finds the
\* flag cleared, and that exit stores nothing, forwards nothing and dequeues
\* nothing; the batch it held is never forwarded; and while no worker thread
\* is alive nothing is stored or forwarded and the queue loses no event.
C8_ExitDropsBatch ==
  /\ [](\A w \in WorkerIds :
          workers[w].pc = "done" => Ids(workers[w].batch) \cap ForwardedIds = {})
  /\ [][/\ \A w \in WorkerIds :
             (workers[w].pc # "done" /\ workers'[w].pc = "done")
             => /\ workers[w].pc = "loop"
                /\ ~running
                /\ workers'[w].batch = workers[w].batch
                /\ event_queue' = event_queue
                /\ event_windows' = event_windows
                /\ forwarded' = forwarded
                /\ stats' = stats
        /\ (\A w \in WorkerIds : ~Alive(w))
             => /\ event_windows' = event_windows
                /\ forwarded' = forwarded
                /\ IsPrefix(event_queue, event_queue')]_vars
\* a worker has exited holding a partial batch while events are still queued
C8_Witness ==
  \E w \in WorkerIds :
    /\ workers[w].pc = "done"
    /\ workers[w].batch # <<>>
    /\ event_queue # <<>>
    /\ stop_mark.stopped

\* C9: at most one worker thread is alive at any moment.
C9_SingleWorker == Cardinality({w \in WorkerIds : Alive(w)}) <= 1

\* C10: a get_stats read that ends while the worker is inside add_event does
\* not fail and returns the statistics of the store either before or after
\* that whole add_event call.
C10_SynchronizedRead ==
  \A i \in 1..Len(reader.result) :
    reader.result[i].concurrent =>
      /\ ~reader.result[i].failed
      /\ reader.result[i].snap \in {reader.result[i].pre, reader.result[i].post}

\* an add_event call has just returned (no exception left it)
AddReturned ==
  /\ last_call' # last_call
  /\ last_call'[1].op = "add_event"
  /\ ~last_call'[1].raised
\* the event that call was given, with what add_event wrote into it
Added == last_call'[1].event
\* older than now - retention_window, by the time add_event keeps for the event
Expired(e) == EventTime(e, now).n < now - config.retention_window
\* the windows with the new event at the back of its type's window
WithAppended ==
  IF \E i \in 1..Len(event_windows) : event_windows[i].type = TypeKey(Added.d)
  THEN [i \in 1..Len(event_windows) |->
          IF event_windows[i].type = TypeKey(Added.d)
          THEN [type |-> event_windows[i].type,
                events |-> event_windows[i].events \o << Added >>]
          ELSE event_windows[i]]
  ELSE event_windows \o << [type |-> TypeKey(Added.d), events |-> << Added >>] >>
\* new is old without the maximal run of expired events at its front
FrontRunRemoved(old, new) ==
  \E k \in 0..Len(old) :
    /\ new = SubSeq(old, k + 1, Len(old))
    /\ \A j \in 1..k : Expired(old[j])
    /\ k < Len(old) => ~Expired(old[k + 1])
\* every window lost the maximal expired run at its front and nothing else,
\* and events_expired grew by the number of events removed
EvictionPassDone ==
  /\ Len(event_windows') = Len(WithAppended)
  /\ \A i \in 1..Len(WithAppended) :
       /\ event_windows'[i].type = WithAppended[i].type
       /\ FrontRunRemoved(WithAppended[i].events, event_windows'[i].events)
  /\ sm_stats'.events_expired =
       sm_stats.events_expired + TotalEvents(WithAppended) - TotalEvents(event_windows')
\* the new event is the last of its type's window
NewAtBack ==
  \E i \in 1..Len(event_windows') :
    /\ event_windows'[i].type = TypeKey(Added.d)
    /\ event_windows'[i].events # <<>>
    /\ event_windows'[i].events[Len(event_windows'[i].events)] = Added

\* C11 as stated: when add_event returns the new event is at the back of its
\* type's window, every window has lost the maximal run of expired events at
\* its front, and events_expired has grown by the number removed.
C11_NewAtBackAndEvicted == [][AddReturned => (EvictionPassDone /\ NewAtBack)]_vars
\* C11 amended: the same, but the new event is at the back of its window only
\* if the eviction pass did not remove it: an event that is itself expired,
\* appended to a window holding only expired events, is evicted by the call
\* that inserted it and the window is left empty.
C11_AppendedThenEvicted ==
  [][AddReturned =>
       /\ EvictionPassDone
       /\ \/ NewAtBack
          \/ /\ Expired(Added)
             /\ \E i \in 1..Len(event_windows') :
                  /\ event_windows'[i].type = TypeKey(Added.d)
                  /\ event_windows'[i].events = <<>>]_vars
\* an add_event has returned having evicted the event it was given: the
\* event's window is empty, while the window of another type keeps its event
C11_Witness ==
  /\ Len(last_call) = 1
  /\ last_call[1].op = "add_event"
  /\ ~last_call[1].raised
  /\ last_call[1].event.id \notin StoredIds
  /\ sm_stats.events_expired = 1
  /\ \E i, j \in 1..Len(event_windows) :
       /\ event_windows[i].type = TypeKey(last_call[1].event.d)
       /\ event_windows[i].events = <<>>
       /\ event_windows[j].events # <<>>

\* the events stored now, of every window
StoredEvents == UNION {Range(event_windows[i].events) : i \in 1..Len(event_windows)}

\* C12 as stated: an event inserted at time t is in its type's window, and so
\* returned by get_events_by_type(T), at every time up to t + retention_window.
C12_KeptSinceInsertion ==
  \A id \in DOMAIN inserted_at :
    now <= inserted_at[id] + config.retention_window => id \in StoredIds
\* C12 amended: no step removes an event whose timestamp is within
\* retention_window of the current time: it is still returned by
\* get_events_by_type(T) after the step, whatever event the step inserted.
\* The window counts from the event's timestamp, not from its insertion.
C12_KeptWhileTimestampFresh ==
  [][\A e \in StoredEvents :
       EventTime(e, now).n >= now - config.retention_window
       => \E r \in {get_events_by_type(event_windows', TypeKey(e.d), None, now')} :
            /\ ~r.raised
            /\ \E i \in 1..Len(r.events) : r.events[i].id = e.id]_vars
\* an add_event whose eviction pass removed an event has left in its window an
\* event inserted before it whose timestamp is within the retention window
C12_Witness ==
  /\ Len(last_call) = 1
  /\ last_call[1].op = "add_event"
  /\ ~last_call[1].raised
  /\ sm_stats.events_expired >= 1
  /\ \E e \in StoredEvents :
       /\ e.id < last_call[1].event.id
       /\ EventTime(e, now).n >= now - config.retention_window

\* C13 as stated: at any time no window contains, and get_events_by_type(T)
\* without window_seconds returns, an event whose timestamp is older than
\* now - retention_window.
C13_NoEventOlderThanRetention ==
  /\ \A e \in StoredEvents : ~Expired(e)
  /\ \A T \in QueryTypes :
       \A e \in Range(get_events_by_type(event_windows, T, None, now).events) :
         ~Expired(e)
\* C13 amended: when add_event returns, the first event of every non-empty
\* window, and so the first event get_events_by_type(T) returns, is not older
\* than now - retention_window. Older events can stay behind such a first
\* event, and any event can grow older than that until the next add_event.
C13_FrontFreshAfterAdd ==
  [][AddReturned =>
       /\ \A i \in 1..Len(event_windows') :
            event_windows'[i].events # <<>>
            => EventTime(event_windows'[i].events[1], now').n
                 >= now' - config.retention_window
       /\ \A T \in QueryTypes :
            \A r \in {get_events_by_type(event_windows', T, None, now')} :
              r.events # <<>>
              => EventTime(r.events[1], now').n >= now' - config.retention_window]_vars
\* an add_event has returned and left, behind a first event within the
\* retention window, an event older than now - retention_window
C13_Witness ==
  /\ Len(last_call) = 1
  /\ last_call[1].op = "add_event"
  /\ ~last_call[1].raised
  /\ \E i \in 1..Len(event_windows) :
       /\ Len(event_windows[i].events) >= 2
       /\ ~Expired(event_windows[i].events[1])
       /\ Expired(event_windows[i].events[2])
       /\ event_windows[i].events[2].id = last_call[1].event.id

\* the store holds every event inserted so far, all of the type of the event
\* being added and all within the retention window, as the added event is
OnlyFreshOfAddedType ==
  /\ TotalEvents(event_windows) = next_id
  /\ ~Expired(Added)
  /\ \A e \in StoredEvents : TypeKey(e.d) = TypeKey(Added.d) /\ ~Expired(e)
\* C14: on a fresh store, each of n add_event calls for events of type T with
\* timestamps within the retention window returns, and after it
\* get_events_by_type(T) returns exactly the events inserted so far, in
\* insertion order, and count_events(T) is their number.
C14_AllInsertedReturned ==
  [][(last_call' # last_call /\ last_call'[1].op = "add_event" /\ OnlyFreshOfAddedType)
       => /\ ~last_call'[1].raised
          /\ get_events_by_type(event_windows', TypeKey(Added.d), None, now') =
               [raised |-> FALSE,
                events |-> WindowOf(event_windows, TypeKey(Added.d)) \o << Added >>]
          /\ count_events(event_windows', TypeKey(Added.d), None, now') =
               [raised |-> FALSE, count |-> next_id']]_vars

\* C15: count_events(T, window_seconds) is the number of events that
\* get_events_by_type(T, window_seconds) returns in the same state at the same
\* time, for every T and window_seconds (omitted included); it raises exactly
\* when that query raises.
C15_CountIsLengthOfQuery ==
  [][(last_call' # last_call /\ last_call'[1].op = "count_events")
       => \E q \in {get_events_by_type(event_windows, last_call'[1].type,
                                       last_call'[1].window_seconds, now)} :
            /\ last_call'[1].result.raised = q.raised
            /\ ~q.raised => last_call'[1].result.count = Len(q.events)]_vars
\* a count_events call with window_seconds has counted some but not all of the
\* events of the type's window
C15_Witness ==
  /\ Len(last_call) = 1
  /\ last_call[1].op = "count_events"
  /\ last_call[1].window_seconds # None
  /\ ~last_call[1].result.raised
  /\ last_call[1].result.count >= 1
  /\ last_call[1].result.count < Len(WindowOf(event_windows, last_call[1].type))

\* C16: get_events_by_type(T) without window_seconds returns all events of T's
\* window; with window_seconds it returns exactly those whose timestamp is at
\* or after now - window_seconds; both in insertion order.
C16_QueryReturnsWindowed ==
  [][(last_call' # last_call /\ last_call'[1].op = "get_events_by_type")
       => /\ ~last_call'[1].result.raised
          /\ last_call'[1].result.events =
               IF last_call'[1].window_seconds = None
               THEN WindowOf(event_windows, last_call'[1].type)
               ELSE SelectSeq(WindowOf(event_windows, last_call'[1].type),
                              LAMBDA e : EventTime(e, now).n >=
                                           now - last_call'[1].window_seconds.n)]_vars

\* C17: get_unique_values(T, field, window_seconds) is the set of the field's
\* values over the events that get_events_by_type(T, window_seconds) returns
\* and that contain the field (values equal by == being one member).
C17_UniqueValuesOfQuery ==
  [][(last_call' # last_call /\ last_call'[1].op = "get_unique_values")
       => \E q \in {get_events_by_type(event_windows, last_call'[1].type,
                                       last_call'[1].window_seconds, now)} :
            ~q.raised
            => /\ ~last_call'[1].result.raised
               /\ \A v \in last_call'[1].result.values :
                    \E i \in 1..Len(q.events) :
                      /\ Has(q.events[i].d, last_call'[1].field)
                      /\ q.events[i].d[last_call'[1].field] = v
               /\ \A i \in 1..Len(q.events) :
                    Has(q.events[i].d, last_call'[1].field)
                    => \E v \in last_call'[1].result.values :
                         PyEq(v, q.events[i].d[last_call'[1].field])]_vars

\* the step is a set_correlation_state or a clear_correlation_state call on id
Wrote(id) ==
  /\ last_call' # last_call
  /\ last_call'[1].op \in {"set_correlation_state", "clear_correlation_state"}
  /\ last_call'[1].id = id

\* C18: after set(id, s) get(id) returns the content of s with updated_at set
\* to the time of the call, and nothing of the entry that was there before (so
\* set(id, s1); set(id, s2); get(id) gives s2 and updated_at only); after
\* clear(id) get(id) returns absent; clearing an absent id changes nothing.
C18_SetReplacesClearRemoves ==
  [][\A id \in CorrelationIds :
       Wrote(id)
       => \E r \in {get_correlation_state(correlation_state', id)} :
            IF last_call'[1].op = "set_correlation_state"
            THEN /\ r # None
                 /\ DOMAIN r = DOMAIN last_call'[1].state \cup {"updated_at"}
                 /\ r["updated_at"] = IsoNaive(now)
                 /\ \A k \in DOMAIN last_call'[1].state \ {"updated_at"} :
                      r[k] = last_call'[1].state[k]
            ELSE /\ r = None
                 /\ last_call'[1].before = None
                    => correlation_state' = correlation_state]_vars
\* a set has replaced an entry that held a key the new state lacks
C18_Witness ==
  /\ Len(last_call) = 1
  /\ last_call[1].op = "set_correlation_state"
  /\ last_call[1].before # None
  /\ \E k \in DOMAIN last_call[1].before : k \notin DOMAIN last_call[1].state
  /\ \E k \in DOMAIN last_call[1].state : k \notin DOMAIN last_call[1].before
  /\ last_call[1].id \in DOMAIN correlation_state

\* C19: an entry of the correlation-state map leaves it only by a clear on its
\* own id: a step that is not a set or clear on that id (an add_event with its
\* eviction pass, time passing, a get, a set or clear on another id) leaves the
\* entry present and unchanged.
C19_OnlyOwnClearRemoves ==
  [][\A id \in DOMAIN correlation_state :
       /\ ~Wrote(id)
          => /\ id \in DOMAIN correlation_state'
             /\ correlation_state'[id] = correlation_state[id]
       /\ id \notin DOMAIN correlation_state'
          => /\ Wrote(id)
             /\ last_call'[1].op = "clear_correlation_state"]_vars
\* an entry written earlier is still there, as written, after an add_event
\* that evicted an event and with another id absent
C19_Witness ==
  /\ Len(last_call) = 1
  /\ last_call[1].op = "add_event"
  /\ sm_stats.events_expired >= 1
  /\ now >= 1
  /\ \E id \in DOMAIN correlation_state :
       /\ correlation_state[id]["updated_at"] = IsoNaive(0)
       /\ CorrelationIds \ DOMAIN correlation_state # {}

\* the event's type is a registered schema
Registered(event) ==
  /\ Has(event, "type")
  /\ event["type"].k = "str"
  /\ event["type"].s # ""
  /\ event["type"].s \in DOMAIN schemas
\* the value is of the primitive type the field declares and in its enum
OfDeclaredType(value, field) ==
  /\ field.type = "string" => value.k = "str"
  /\ field.type = "integer" => value.k \in {"int", "bool"}
  /\ field.type = "boolean" => value.k = "bool"
  /\ field.hasEnum => value \in field.enum
\* the event with its type and the fields its type's schema declares, only
DeclaredPart(event) ==
  [k \in {f \in DOMAIN event :
            \/ f = "type"
            \/ /\ Registered(event)
               /\ \E i \in 1..Len(schemas[event["type"].s]) :
                    schemas[event["type"].s][i].name = f} |-> event[k]]

\* C20: validate returns True for every event whose type is registered, that
\* holds every required field of its type's schema and whose present declared
\* fields are each of the declared primitive type and within the declared
\* enum; the fields the schema does not declare do not change the result.
C20_ConformingEventsPass ==
  [][(last_call' # last_call /\ last_call'[1].op = "validate")
       => \E e \in {last_call'[1].event} :
            /\ ( /\ Registered(e)
                 /\ \A i \in 1..Len(schemas[e["type"].s]) :
                      \E f \in {schemas[e["type"].s][i]} :
                        /\ f.required => Has(e, f.name)
                        /\ Has(e, f.name) => OfDeclaredType(e[f.name], f) )
               => /\ ~last_call'[1].raised
                  /\ last_call'[1].result = TRUE
            /\ last_call'[1].result = validate(schemas, DeclaredPart(e))]_vars
\* a validate call has accepted an event that holds optional declared fields
\* and a field its schema does not declare
C20_Witness ==
  /\ Len(last_call) = 1
  /\ last_call[1].op = "validate"
  /\ last_call[1].result = TRUE
  /\ last_call[1].event["type"] = PyStr("auth_fail")
  /\ {"port", "success", "method", "_source", "message"} \subseteq DOMAIN last_call[1].event

\* a field the schema of the event's registered type marks required is missing
RequiredMissing(event) ==
  /\ Registered(event)
  /\ \E i \in 1..Len(schemas[event["type"].s]) :
       /\ schemas[event["type"].s][i].required
       /\ ~Has(event, schemas[event["type"].s][i].name)

\* C21: validate returns False whenever the event has no type, its type is
\* not a registered schema, or a field its type's schema marks required is
\* missing from the event.
C21_UnregisteredOrIncompleteFails ==
  [][(last_call' # last_call /\ last_call'[1].op = "validate")
       => \E e \in {last_call'[1].event} :
            (~Has(e, "type") \/ ~Registered(e) \/ RequiredMissing(e))
            => /\ ~last_call'[1].raised
               /\ last_call'[1].result = FALSE]_vars

\* the value is not of the primitive type the field declares, string, integer
\* and boolean being disjoint kinds, or is outside the field's enum
NotOfDeclaredKind(value, field) ==
  \/ field.type = "string" /\ value.k # "str"
  \/ field.type = "integer" /\ value.k # "int"
  \/ field.type = "boolean" /\ value.k # "bool"
  \/ field.hasEnum /\ value \notin field.enum

\* C22: validate returns False whenever a present, schema-declared field holds
\* a value that is not of its declared primitive type (string, integer and
\* boolean being three disjoint kinds of value) or a value outside the field's
\* declared enum.
C22_WrongKindOrEnumFails ==
  [][(last_call' # last_call /\ last_call'[1].op = "validate")
       => \E e \in {last_call'[1].event} :
            ( /\ Registered(e)
              /\ \E i \in 1..Len(schemas[e["type"].s]) :
                   \E f \in {schemas[e["type"].s][i]} :
                     Has(e, f.name) /\ NotOfDeclaredKind(e[f.name], f) )
            => /\ ~last_call'[1].raised
               /\ last_call'[1].result = FALSE]_vars

\* C23: with the schema file missing or unparsable at startup the registry
\* holds no schemas and validate returns False for every event.
C23_EmptyRegistryRejectsAll ==
  /\ [](schemas # SchemaFile => DOMAIN schemas = {})
  /\ [][(last_call' # last_call /\ last_call'[1].op = "validate" /\ DOMAIN schemas = {})
          => /\ ~last_call'[1].raised
             /\ last_call'[1].result = FALSE]_vars

\* the rules of type inference in their order: the keywords a rule needs in
\* the event's text, and the type it gives
InferenceRules ==
  << [needs |-> {"auth", "fail"}, gives |-> "auth_fail"],
     [needs |-> {"auth"}, gives |-> "auth_success"],
     [needs |-> {"process"}, gives |-> "process_start"],
     [needs |-> {"network"}, gives |-> "network_connect"],
     [needs |-> {"connection"}, gives |-> "network_connect"],
     [needs |-> {"file"}, gives |-> "file_access"] >>
\* the type of the first rule that matches the event's text
FirstMatch(event) ==
  LET matching == {i \in 1..Len(InferenceRules) :
                     InferenceRules[i].needs \subseteq TextOf(event)}
  IN IF matching = {} THEN "unknown"
     ELSE InferenceRules[CHOOSE i \in matching : \A j \in matching : i <= j].gives

\* C24: for an event without a type key normalization sets type by the first
\* matching rule, in the order auth+fail, auth, process, network or
\* connection, file, else unknown; an event with a type key keeps its type.
C24_TypeInferredInOrder ==
  [][(last_call' # last_call /\ last_call'[1].op = "_normalize_event")
       => \E c \in {last_call'[1]} :
            /\ c.type_set = IF Has(c.event, "type") THEN c.event["type"]
                            ELSE PyStr(FirstMatch(c.event))
            /\ ~c.raised => c.result["type"] = c.type_set]_vars
\* an event without a type whose text holds 'auth', 'fail', 'process' and
\* 'file' was normalized to auth_fail
C24_Witness ==
  /\ Len(last_call) = 1
  /\ last_call[1].op = "_normalize_event"
  /\ ~Has(last_call[1].event, "type")
  /\ {"auth", "fail", "process", "file"} \subseteq TextOf(last_call[1].event)
  /\ ~last_call[1].raised
  /\ last_call[1].result["type"] = PyStr("auth_fail")

\* C25: every event produced by normalization has a non-empty type, whatever
\* the raw event held (no type key, or a type key with any value).
C25_NormalizedTypeNonEmpty ==
  [][(last_call' # last_call /\ last_call'[1].op = "_normalize_event"
      /\ ~last_call'[1].raised)
       => /\ Has(last_call'[1].result, "type")
          /\ ~Falsy(last_call'[1].result["type"])]_vars

\* C26: an event that is valid in every other respect is never rejected
\* because of its timestamp (missing, unparsable, or of any other kind): the
\* worker never counts such an event as rejected.
C26_NeverRejectedForTimestamp ==
  \A w \in WorkerIds :
    workers[w].pc = "rej_store"
    => ~( /\ ~validate_raises(schemas, workers[w].cur.d)
          /\ validate(schemas, workers[w].cur.d) )

\* the step made a _forward_batch call in which the forwarding of an event failed
ForwardFailed ==
  /\ Len(forwarded') = Len(forwarded) + 1
  /\ \E j \in 1..Len(forwarded'[Len(forwarded')].events) :
       json_dumps_raises(forwarded'[Len(forwarded')].events[j].d)

\* C27: a failure while forwarding a batch is absorbed: the batch is not put
\* back on the queue nor forwarded again, the in-flight batch is emptied,
\* events_rejected is not incremented and the worker goes on to its next
\* dequeue.
C27_ForwardFailureAbsorbed ==
  /\ [][ForwardFailed
          => \E w \in {forwarded'[Len(forwarded')].worker} :
               /\ workers'[w].batch = <<>>
               /\ workers'[w].pc = "loop"
               /\ event_queue' = event_queue
               /\ stats'.events_rejected = stats.events_rejected]_vars
  /\ [](\A i, j \in 1..Len(forwarded) :
          i # j => Ids(forwarded[i].events) \cap Ids(forwarded[j].events) = {})
\* a full batch was forwarded in which one event could not be serialized and
\* another could; the worker is back at its loop with an empty batch and no
\* rejection counted
C27_Witness ==
  /\ Len(forwarded) = 1
  /\ forwarded[1].trigger = "full"
  /\ \E j \in 1..Len(forwarded[1].events) : json_dumps_raises(forwarded[1].events[j].d)
  /\ \E j \in 1..Len(forwarded[1].events) : ~json_dumps_raises(forwarded[1].events[j].d)
  /\ workers[forwarded[1].worker].pc = "loop"
  /\ workers[forwarded[1].worker].batch = <<>>
  /\ stats.events_rejected = 0
  /\ stats.events_forwarded = Len(forwarded[1].events)

\* C28: no event content stops the pipeline: when processing a dequeued event
\* raises (in normalize, validate or the store) the worker stays in its loop,
\* its thread ending only after stop(), and goes on to take the events queued
\* after it; a receive_event call that reaches its put always completes.
C28_ErrorsDoNotStopPipeline ==
  /\ [](\A w \in WorkerIds : workers[w].pc = "done" => stop_mark.stopped)
  /\ [][\A w \in WorkerIds :
          (workers[w].pc = "rej_store" /\ workers'[w] # workers[w])
          => workers'[w].pc = "loop"]_vars
  /\ \A id \in 1..MaxEvents :
       (id \in QueuedIds /\ \E w \in WorkerIds : Alive(w))
         ~> (id \notin QueuedIds \/ stop_mark.stopped)
  /\ [](\A p \in Producers : producers[p].pc = "put" => ENABLED ReceivePut(p))
\* the first event was accepted, dequeued and rejected on an error of
\* normalize or validate; the second was accepted after it, validated and stored
C28_Witness ==
  /\ stats.events_received = 2
  /\ stats.events_rejected = 1
  /\ Len(validated_order) = 1
  /\ validated_order[1].id = 2
  /\ 2 \in StoredIds
  /\ 1 \notin StoredIds
  /\ ~stop_mark.stopped
  /\ \A w \in WorkerIds : Alive(w)

\* C29: with buffer_size, batch_size or retention_window not a positive integer
\* startup fails: the aggregator is not started and no event is ever accepted,
\* dequeued or processed.
C29_InvalidConfigNeverRuns ==
  (config.buffer_size <= 0 \/ config.batch_size <= 0 \/ config.retention_window <= 0)
  => /\ ~running
     /\ \A w \in WorkerIds : workers[w].pc = "none"
     /\ stats.events_received = 0
     /\ event_queue = <<>>
     /\ event_windows = <<>>

\* C30: an input record that cannot be decoded is discarded with
\* events_rejected incremented by 1, and the queue, the in-flight batch and
\* the store are unaffected.
C30_UndecodableRecordCounted ==
  [][(last_call' # last_call /\ last_call'[1].op = "main")
       => /\ stats'.events_rejected = stats.events_rejected + 1
          /\ event_queue' = event_queue
          /\ workers' = workers
          /\ event_windows' = event_windows]_vars

\* C31: after every add_event call, total_events_stored is the number of
\* events held in all windows plus events_expired, and windows_active is the
\* number of windows that hold at least one event.
C31_StatsMatchStore ==
  (Len(last_call) = 1 /\ last_call[1].op = "add_event") =>
    /\ sm_stats.total_events_stored = TotalEvents(event_windows) + sm_stats.events_expired
    /\ sm_stats.windows_active = ActiveWindows(event_windows)

\* the worker is between two iterations of its loop (or has left it)
BetweenIterations(w) == workers[w].pc \in {"loop", "get", "done"}

\* C32: whenever the worker is between two iterations, every validated event
\* has been inserted into the store and appended to the batch sequence (the
\* batch in progress or a forwarded batch), and no other event has been:
\* events_validated = total_events_stored.
C32_StoredAndBatchedTogether ==
  \A w \in WorkerIds : BetweenIterations(w) =>
    /\ stats.events_validated = sm_stats.total_events_stored
    /\ Ids(validated_order) = DOMAIN inserted_at
    /\ Ids(workers[w].batch) \cup ForwardedIds = DOMAIN inserted_at
    /\ stats.events_validated = Cardinality(DOMAIN inserted_at)
\* two events were validated and stored: the first left in an idle flush, the
\* second is in the batch in progress
C32_Witness ==
  \E w \in WorkerIds :
    /\ workers[w].pc = "get"
    /\ stats.events_validated = 2
    /\ sm_stats.total_events_stored = 2
    /\ Len(forwarded) = 1
    /\ Len(workers[w].batch) = 1
    /\ Ids(workers[w].batch) \cap ForwardedIds = {}

\* the worker is inside an iteration: it holds a dequeued event
MidIteration(w) == workers[w].pc \in {"proc", "add", "cleanup", "rej_store"}

\* C33: with one producer, whenever no receive_event call is in progress and
\* the worker is between iterations, events_received = queue size +
\* events_validated + events_rejected; and the worker counts no event as
\* rejected that it has counted as validated.
C33_EachCallCountedOnce ==
  /\ ( /\ \A p \in Producers : producers[p].pc = "idle"
       /\ \A w \in WorkerIds : ~MidIteration(w) )
     => stats.events_received =
          Len(event_queue) + stats.events_validated + stats.events_rejected
  /\ \A w \in WorkerIds :
       workers[w].pc = "rej_store" => workers[w].cur.id \notin Ids(validated_order)

\* the events worker thread w validated and has not forwarded
Unforwarded(w) ==
  Len(ByWorker(validated_order, w)) - Len(Concatenation(ByWorker(forwarded, w)))
\* the sizes of the batches of the given workers, added up
RECURSIVE BatchTotal(_)
BatchTotal(W) ==
  IF W = {} THEN 0
  ELSE LET w == CHOOSE v \in W : TRUE
       IN Len(workers[w].batch) + BatchTotal(W \ {w})

C35_BatchBounded ==
  \A w \in WorkerIds :
    /\ Len(workers[w].batch) <= config.batch_size
    /\ workers[w].pc \in {"loop", "get"} => Len(workers[w].batch) < config.batch_size

\* no receive_event call is in progress and no worker holds a dequeued event
Quiescent ==
  /\ \A p \in Producers : producers[p].pc = "idle"
  /\ \A w \in WorkerIds : ~MidIteration(w)
\* the calls that returned False and the events the worker rejected, once
\* Quiescent: the calls whose event is neither queued nor validated
RefusedOrRejected == (1..next_id) \ (QueuedIds \cup Ids(validated_order))

\* C36: with two producers and the worker running concurrently, once every
\* call has returned and the worker holds no event, events_received is the
\* number of calls made and events_rejected is the number of calls that
\* returned False plus the number of events the worker rejected.
C36_NoCounterUpdateLost ==
  Quiescent =>
    /\ stats.events_received = next_id
    /\ stats.events_rejected = Cardinality(RefusedOrRejected)

\* C37: every add_event call runs to completion, whatever string timestamp the
\* event and the events already stored carry ('Z' suffix and UTC offset
\* included), and so does every get_events_by_type and count_events call,
\* with or without window_seconds: no TypeError leaves them.
C37_TimestampsNeverAbort ==
  \A i \in 1..Len(last_call) :
    /\ last_call[i].op = "add_event" => ~last_call[i].raised
    /\ last_call[i].op \in {"get_events_by_type", "count_events"} =>
         ~last_call[i].result.raised

\* the read-only calls of the store
ReadOnlyCalls ==
  {"get_events_by_type", "get_events_by_field", "count_events",
   "get_unique_values", "get_correlation_state", "get_stats"}
\* the step is one read-only call
ReadOnlyStep == last_call' # last_call /\ last_call'[1].op \in ReadOnlyCalls

\* C38: a get_events_by_type, get_events_by_field, count_events,
\* get_unique_values, get_correlation_state or get_stats call leaves the
\* windows, the counters and the correlation states as they were: nothing is
\* evicted and no window is created for a type never inserted, so get_stats
\* gives the same values before and after it.
C38_QueriesLeaveStoreUnchanged ==
  [][ReadOnlyStep =>
       /\ event_windows' = event_windows
       /\ sm_stats' = sm_stats
       /\ correlation_state' = correlation_state
       /\ get_stats(event_windows', sm_stats', correlation_state')
            = get_stats(event_windows, sm_stats, correlation_state)]_vars
\* a windowed query of a type never inserted was made on a store holding an
\* event older than the retention window: the event is still stored and the
\* queried type has no window
C38_Witness ==
  /\ Len(last_call) = 1
  /\ last_call[1].op = "get_events_by_field"
  /\ last_call[1].type = "dns_query"
  /\ last_call[1].window_seconds # None
  /\ ~HasWindow(event_windows, "dns_query")
  /\ \E e \in StoredEvents : Expired(e)
  /\ sm_stats.events_expired = 0
  /\ correlation_state # <<>>

\* C39: in every store state, for every type T, field f and value v (None
\* included), get_events_by_field(T, f, v) returns some event exactly when v
\* is in get_unique_values(T, f).
C39_ByFieldIffUniqueValue ==
  \A T \in QueryTypes : \A f \in FieldArgs : \A v \in ValueArgs :
    LET found == get_events_by_field(event_windows, T, f, v, None, now)
        unique == get_unique_values(event_windows, T, f, None, now)
    IN /\ ~found.raised
       /\ ~unique.raised
       /\ (found.events # <<>>) <=> (\E u \in unique.values : PyEq(u, v))
====
